---- MODULE Spec2Model ----
(***************************************************************************)
(* SDI-12 slave (sensor) side: the numeric encoder dtoa, the response line *)
(* packer formatOutputSDI and the command dispatch loop of the slave       *)
(* example sketch, with the SDI12Sensor device object it drives.           *)
(*                                                                         *)
(* Text is a sequence of one-character strings.  A floating-point value is *)
(* a record [nan, neg, whole, frac]: magnitude whole + frac / FracDen.     *)
(***************************************************************************)
EXTENDS Integers, Sequences, FiniteSets, TLC

\* ------------------------------------------------------------------ bounds
\* Most bytes the bus receive buffer holds before the master stops sending.
MaxRx == 4
\* Most bytes of an unfinished command (no '!' yet) the master leaves pending.
MaxPartial == 1
\* The highest EEPROM cell the model holds.
MaxSlot == 1

\* ------------------------------------------------------- program constants
MEASUREMENT_ARRAY_MAX_SIZE == 9
MEASUREMENT_STR_ARRAY_MAX_ELEMENT == 10
SDI12_VALUE_STR_SIZE == 9
SDI12_VALUES_STR_SIZE_35 == 35
SDI12_VALUES_STR_SIZE_75 == 75
DEFAULT_SENSOR_ADDR == "0"

\* Decimal digits kept of a value's fractional part, and the width of size_t.
FracDigits == 8
SizeBits == 16

\* --------------------------------------------------------------- characters
CR == "\r"
LF == "\n"
NUL == "NUL"
DigitChars == <<"0", "1", "2", "3", "4", "5", "6", "7", "8", "9">>
Digits == {DigitChars[i] : i \in 1..10}
Letters == {"A", "B", "C", "D", "E", "F", "G", "H", "I", "J", "K", "L", "M",
            "N", "O", "P", "Q", "R", "S", "T", "U", "V", "W", "X", "Y", "Z",
            "a", "b", "c", "d", "e", "f", "g", "h", "i", "j", "k", "l", "m",
            "n", "o", "p", "q", "r", "s", "t", "u", "v", "w", "x", "y", "z"}

isalnum(c) == c \in Digits \cup Letters
isdigit(c) == c \in Digits

DigitValue(c) == CHOOSE v \in 0..9 : DigitChars[v + 1] = c
DigitChar(v) == DigitChars[v + 1]

CRLF == <<CR, LF>>

RECURSIVE Pow10(_)
Pow10(n) == IF n = 0 THEN 1 ELSE 10 * Pow10(n - 1)

powers_of_10(n) == Pow10(n)

\* ---------------------------------------------------------- numeric encoder
FracDen == Pow10(FracDigits)

\* A double of magnitude whole + frac / FracDen, at most thres_max.
Val(neg, whole, frac) ==
    [nan |-> FALSE, neg |-> neg, whole |-> whole, frac |-> frac, big |-> FALSE]
NaNVal == [nan |-> TRUE, neg |-> FALSE, whole |-> 0, frac |-> 0, big |-> FALSE]

\* const double thres_max = (double)(0x7FFFFFFF), the largest int
thres_max == 2147483647

\* (int)value for a value above thres_max is undefined: the conversion saturates,
\* gives the most negative int, or keeps the low 32 bits (here those of 10^10).
IntConversions == {thres_max, -thres_max - 1, 1410065408}

\* The double 10^10 or -10^10, with what the build makes of (int)value: conv.
BigVal(neg, conv) ==
    [nan |-> FALSE, neg |-> neg, whole |-> 0, frac |-> 0, big |-> TRUE, conv |-> conv]
BigDigits == <<"1", "0", "0", "0", "0", "0", "0", "0", "0", "0", "0">>

\* int val = (int)value, of the magnitude
ToInt(value) == IF value.big THEN value.conv ELSE value.whole

NaNStr == <<"N", "a", "N">>

\* do { val /= 10; ++len; } while (val > 0)
RECURSIVE IntLenLoop(_, _)
IntLenLoop(val, len) ==
    IF val \div 10 > 0 THEN IntLenLoop(val \div 10, len + 1) ELSE len + 1

IntegralLength(value) == IntLenLoop(ToInt(value), 0)

\* do { *wstr++ = 48 + whole % 10; } while (whole /= 10), most significant first
RECURSIVE WholeDigits(_)
WholeDigits(whole) ==
    IF whole \div 10 = 0 THEN <<DigitChar(whole % 10)>>
    ELSE Append(WholeDigits(whole \div 10), DigitChar(whole % 10))

\* The removal of ending zeros as it would be if it removed none.
StripZeros_None(int_from_frac, len_of_sigfig) ==
    [iff |-> int_from_frac, len |-> len_of_sigfig]

\* while (len_of_sigfig > 0 && int_from_frac % 10 == 0) { len_of_sigfig--; int_from_frac /= 10; }
RECURSIVE StripZeros(_, _)
StripZeros(int_from_frac, len_of_sigfig) ==
    IF len_of_sigfig > 0 /\ int_from_frac % 10 = 0
    THEN StripZeros(int_from_frac \div 10, len_of_sigfig - 1)
    ELSE [iff |-> int_from_frac, len |-> len_of_sigfig]

\* while (len_of_sigfig > 0) { *wstr++ = 48 + int_from_frac % 10; int_from_frac /= 10; }
\* most significant first; rest is what is left of int_from_frac
RECURSIVE FracDigitsOf(_, _)
FracDigitsOf(int_from_frac, len_of_sigfig) ==
    IF len_of_sigfig = 0 THEN [str |-> <<>>, rest |-> int_from_frac]
    ELSE LET r == FracDigitsOf(int_from_frac \div 10, len_of_sigfig - 1)
         IN  [str |-> Append(r.str, DigitChar(int_from_frac % 10)), rest |-> r.rest]

\* prec after the clamp to [0, 9] and the resize to fit_len
ClampPrec(prec) == IF prec <= 0 THEN 0 ELSE IF prec > 9 THEN 9 ELSE prec

FitBudget(fit_len, len_of_integral) ==
    (fit_len - len_of_integral - 2) % (2 ^ SizeBits)

FitPrec(value, prec, fit_len, pos_sign) ==
    LET p == ClampPrec(prec)
        budget == FitBudget(fit_len, IntegralLength(value))
    IN  IF fit_len > 0 /\ p > budget
        THEN ((budget % 256) + (IF ~pos_sign /\ ~value.neg THEN 1 ELSE 0)) % 256
        ELSE p

\* p10_fraction split into int_from_frac and the numerator/denominator of diff_frac
ScaleFrac(frac, prec) ==
    IF prec >= FracDigits
    THEN [iff |-> frac * Pow10(prec - FracDigits), rem |-> 0, den |-> 1]
    ELSE LET den == Pow10(FracDigits - prec)
         IN  [iff |-> frac \div den, rem |-> frac % den, den |-> den]

\* diff_frac > 0.499
Above499(rem, den) ==
    IF den >= 1000 THEN rem > 499 * (den \div 1000) ELSE rem * 1000 > 499 * den

\* diff_frac == 0.5
IsHalf(rem, den) == 2 * rem = den

RoundUp(iff, whole, prec) ==
    IF iff + 1 >= powers_of_10(prec)
    THEN [iff |-> 0, whole |-> whole + 1]
    ELSE [iff |-> iff + 1, whole |-> whole]

\* The rounding decision on the scaled fraction s.
RoundScaled(s, whole, prec) ==
    LET up == IF Above499(s.rem, s.den) THEN TRUE
              ELSE IF IsHalf(s.rem, s.den)
                   THEN IF prec > 0 /\ s.iff % 2 = 1 THEN TRUE
                        ELSE prec = 0 /\ whole % 2 = 1
                   ELSE FALSE
    IN  IF up THEN RoundUp(s.iff, whole, prec) ELSE [iff |-> s.iff, whole |-> whole]

Rounded(value, prec) == RoundScaled(ScaleFrac(value.frac, prec), value.whole, prec)

\* The joining as it would be if the minus sign were left off a text of zeros.
dtoaJoin_SignOfText(value, prec, whole, has_decimal, fd, pos_sign) ==
    (IF value.neg /\ (whole > 0 \/ has_decimal \/ fd.rest > 0) THEN <<"-">>
     ELSE IF pos_sign THEN <<"+">> ELSE <<>>)
    \o WholeDigits(IF prec > 0 /\ fd.rest > 0 THEN whole + 1 ELSE whole)
    \o (IF has_decimal THEN <<".">> \o fd.str ELSE <<>>)

\* The characters written once the fraction digits fd are known.
dtoaJoin(value, prec, whole, has_decimal, fd, pos_sign) ==
    (IF value.neg THEN <<"-">> ELSE IF pos_sign THEN <<"+">> ELSE <<>>)
    \o WholeDigits(IF prec > 0 /\ fd.rest > 0 THEN whole + 1 ELSE whole)
    \o (IF has_decimal THEN <<".">> \o fd.str ELSE <<>>)

\* Trailing zeros dropped from the rounded parts r, then the digits written.
dtoaWrite(value, prec, r, zero_trail, pos_sign) ==
    LET st == IF prec > 0 /\ ~zero_trail THEN StripZeros(r.iff, prec)
              ELSE [iff |-> r.iff, len |-> prec]
    IN  dtoaJoin(value, prec, r.whole, prec > 0 /\ st.len > 0,
                 FracDigitsOf(st.iff, st.len), pos_sign)

\* The length reported with the characters written.
dtoaResult(str) == [str |-> str, len |-> Len(str)]

\* The conversion at the precision the width leaves room for.
dtoaRound(value, prec, zero_trail, pos_sign) ==
    dtoaResult(dtoaWrite(value, prec, Rounded(value, prec), zero_trail, pos_sign))

\* sprintf(str, "%+.*f", prec, value) or sprintf(str, "%.*f", prec, value), for
\* a value above thres_max
dtoaSprintf(value, prec, pos_sign) ==
    (IF value.neg THEN <<"-">> ELSE IF pos_sign THEN <<"+">> ELSE <<>>)
    \o BigDigits
    \o (IF prec > 0 THEN <<".">> \o [i \in 1..prec |-> "0"] ELSE <<>>)

\* The conversion once the value is known to be a number that passed the width test.
dtoaNumber(value, prec, zero_trail, pos_sign) ==
    IF value.big THEN dtoaResult(dtoaSprintf(value, prec, pos_sign))
    ELSE dtoaRound(value, prec, zero_trail, pos_sign)

\* dtoa as it would be without its test for NaN: the value is converted as zero.
dtoa_NoNaNTest(value, prec0, fit_len, zero_trail, pos_sign) ==
    IF fit_len > 0 /\ IntegralLength(value) >= fit_len
    THEN [str |-> NaNStr, len |-> 0]
    ELSE dtoaNumber(value, FitPrec(value, prec0, fit_len, pos_sign), zero_trail, pos_sign)

dtoa(value, prec0, fit_len, zero_trail, pos_sign) ==
    IF value.nan THEN [str |-> NaNStr, len |-> 0]
    ELSE IF fit_len > 0 /\ IntegralLength(value) >= fit_len
    THEN [str |-> NaNStr, len |-> 0]
    ELSE dtoaNumber(value, FitPrec(value, prec0, fit_len, pos_sign), zero_trail, pos_sign)

\* ------------------------------------------------------- response formatter
BlankLines == [i \in 0..(MEASUREMENT_STR_ARRAY_MAX_ELEMENT - 1) |-> <<>>]

\* Writing dValues[j]: a write outside the array lands beyond it and is kept under
\* its index, so that it shows.
SetLine(d, j, s) == [i \in DOMAIN d \cup {j} |-> IF i = j THEN s ELSE d[i]]

\* One value v appended to line j, or placed on line j + 1 when it does not fit.
PackOne(d, j, v, maxChar) ==
    IF Len(d[j]) + v.len < maxChar
    THEN [d |-> SetLine(d, j, d[j] \o v.str), j |-> j]
    ELSE [d |-> SetLine(d, j + 1, v.str), j |-> j + 1]

\* for (int i = 0; i < MEASUREMENT_ARRAY_MAX_SIZE; i++), on s = [d, j]
RECURSIVE PackFrom(_, _, _, _)
PackFrom(values, i, s, maxChar) ==
    IF i > Len(values) \/ i > MEASUREMENT_ARRAY_MAX_SIZE THEN s
    ELSE PackFrom(values, i + 1,
                  PackOne(s.d, s.j, dtoa(values[i], 6, SDI12_VALUE_STR_SIZE, FALSE, TRUE),
                          maxChar),
                  maxChar)

\* The blank filling as it would be with the test j <= MEASUREMENT_ARRAY_MAX_SIZE.
RECURSIVE BlankFill_Through(_, _)
BlankFill_Through(d, j) ==
    IF j <= MEASUREMENT_ARRAY_MAX_SIZE
    THEN BlankFill_Through(SetLine(d, j + 1, <<>>), j + 1)
    ELSE d

\* The blank filling as it would be if it left the later slots alone.
BlankFill_None(d, j) == d

\* while (j < MEASUREMENT_ARRAY_MAX_SIZE) { dValues[++j] = ""; }
RECURSIVE BlankFill(_, _)
BlankFill(d, j) ==
    IF j < MEASUREMENT_ARRAY_MAX_SIZE THEN BlankFill(SetLine(d, j + 1, <<>>), j + 1)
    ELSE d

BlankRest(s) == BlankFill(s.d, s.j)

formatOutputSDI(measurementValues, dValues, maxChar) ==
    BlankRest(PackFrom(measurementValues, 1, [d |-> SetLine(dValues, 0, <<>>), j |-> 0],
                       maxChar))

\* The measurement source of the sketch (float values, widened to double).
pollSensor ==
    << Val(FALSE, 1, 10000002), Val(TRUE, 2, 22000002), Val(FALSE, 3, 33299994),
       Val(TRUE, 4, 44439983), Val(FALSE, 5, 55555009), Val(TRUE, 6, 66666603),
       Val(FALSE, 78, 77777862), Val(TRUE, 890, 88891601), Val(TRUE, 0, 11111111) >>


\* ------------------------------------------------------------ command model
kUnknown == "kUnknown"
kAddressQuery == "kAddressQuery"
kAcknowledge == "kAcknowledge"
kIdentification == "kIdentification"
kAddressChange == "kAddressChange"
kMeasurement == "kMeasurement"
kConcurrentMeasurement == "kConcurrentMeasurement"
kHighVolumeASCII == "kHighVolumeASCII"
kHighVolumeByte == "kHighVolumeByte"
kContinuousMeasurement == "kContinuousMeasurement"
kDataRequest == "kDataRequest"
kByteDataRequest == "kByteDataRequest"
kVerification == "kVerification"

MeasurementClass == {kMeasurement, kConcurrentMeasurement, kHighVolumeASCII,
                     kHighVolumeByte, kContinuousMeasurement, kVerification}

kStateLowPower == "kStateLowPower"
kStateReady == "kStateReady"
kStateMeasurement == "kStateMeasurement"
kStateConcurrent == "kStateConcurrent"
kStateHighMeasurement == "kStateHighMeasurement"
kStateContinuous == "kStateContinuous"
kStateVerify == "kStateVerify"

Cmd(address, primary, secondary, param1, param2, crc) ==
    [address |-> address, primary |-> primary, secondary |-> secondary,
     param1 |-> param1, param2 |-> param2, crc |-> crc]

\* The command record a call of loop() starts with and keeps when it parses no
\* command: the member defaults of SDI12CommandSet_s.
NoCmd == Cmd(NUL, kUnknown, kUnknown, 0, 0, FALSE)

RECURSIVE DigitPrefixLen(_)
DigitPrefixLen(t) ==
    IF t = <<>> \/ ~isdigit(Head(t)) THEN 0 ELSE 1 + DigitPrefixLen(Tail(t))

RECURSIVE NumOf(_)
NumOf(t) ==
    IF t = <<>> THEN 0
    ELSE 10 * NumOf(SubSeq(t, 1, Len(t) - 1)) + DigitValue(t[Len(t)])

\* [<param1>][_<param2>] after the verb letters and the optional C
ParseGroups(crc, t1, n1) ==
    LET t2 == SubSeq(t1, n1 + 1, Len(t1))
        has2 == t2 # <<>> /\ Head(t2) = "_"
        t3 == IF has2 THEN Tail(t2) ELSE t2
        n2 == IF has2 THEN DigitPrefixLen(t3) ELSE 0
    IN  [ok |-> (IF has2 THEN n2 > 0 /\ n2 = Len(t3) ELSE t2 = <<>>) /\ n1 <= 3 /\ n2 <= 3,
         crc |-> crc, n1 |-> n1,
         p1 |-> IF n1 <= 3 THEN NumOf(SubSeq(t1, 1, n1)) ELSE 0,
         p2 |-> IF has2 /\ n2 > 0 /\ n2 <= 3 THEN NumOf(SubSeq(t3, 1, n2)) ELSE 0]

\* [C][<param1>][_<param2>] after the verb letters
ParseTail(t) ==
    LET crc == t # <<>> /\ Head(t) = "C"
        t1 == IF crc THEN Tail(t) ELSE t
    IN  ParseGroups(crc, t1, DigitPrefixLen(t1))

\* The measurement-class verb at the head of r and what follows it.
MeasVerb(r) ==
    IF r = <<>> THEN [primary |-> kUnknown, tail |-> <<>>]
    ELSE CASE Head(r) = "M" -> [primary |-> kMeasurement, tail |-> Tail(r)]
           [] Head(r) = "C" -> [primary |-> kConcurrentMeasurement, tail |-> Tail(r)]
           [] Head(r) = "R" -> [primary |-> kContinuousMeasurement, tail |-> Tail(r)]
           [] Head(r) = "V" -> [primary |-> kVerification, tail |-> Tail(r)]
           [] Head(r) = "H" /\ Len(r) >= 2 /\ r[2] = "A" ->
                  [primary |-> kHighVolumeASCII, tail |-> SubSeq(r, 3, Len(r))]
           [] Head(r) = "H" /\ Len(r) >= 2 /\ r[2] = "B" ->
                  [primary |-> kHighVolumeByte, tail |-> SubSeq(r, 3, Len(r))]
           [] OTHER -> [primary |-> kUnknown, tail |-> r]

\* Whether the digit group of a measurement-class verb is well formed.
VerbTailOk(primary, pt) ==
    /\ pt.ok
    /\ CASE primary \in {kMeasurement, kConcurrentMeasurement} -> pt.n1 <= 1
         [] primary = kContinuousMeasurement -> pt.n1 = 1
         [] OTHER -> pt.n1 = 0

\* A measurement-class verb with its parsed tail pt; ident: behind the I verb.
ParseMeasured(a, primary, pt, ident) ==
    IF primary # kUnknown /\ VerbTailOk(primary, pt) /\ (ident \/ pt.p2 = 0)
    THEN IF ident THEN Cmd(a, kIdentification, primary, pt.p1, pt.p2, pt.crc)
         ELSE Cmd(a, primary, kUnknown, pt.p1, 0, pt.crc)
    ELSE Cmd(a, kUnknown, kUnknown, 0, 0, FALSE)

ParseVerb(a, mv, ident) == ParseMeasured(a, mv.primary, ParseTail(mv.tail), ident)

\* aD<n>! and aDB<n>!
ParseData(a, byte, t) ==
    IF DigitPrefixLen(t) > 0 /\ DigitPrefixLen(t) = Len(t) /\ Len(t) <= 3
    THEN Cmd(a, IF byte THEN kByteDataRequest ELSE kDataRequest, kUnknown, NumOf(t), 0, FALSE)
    ELSE Cmd(a, kUnknown, kUnknown, 0, 0, FALSE)

\* The command with address a and the characters r after it.
ParseBody(a, r) ==
    IF r = <<>>
    THEN Cmd(a, IF a = "?" THEN kAddressQuery ELSE kAcknowledge, kUnknown, 0, 0, FALSE)
    ELSE CASE Head(r) = "I" ->
              IF Tail(r) = <<>> THEN Cmd(a, kIdentification, kUnknown, 0, 0, FALSE)
              ELSE ParseVerb(a, MeasVerb(Tail(r)), TRUE)
           [] Head(r) = "A" ->
              IF Len(r) = 2 THEN Cmd(a, kAddressChange, kUnknown, r[2], 0, FALSE)
              ELSE Cmd(a, kUnknown, kUnknown, 0, 0, FALSE)
           [] Head(r) = "D" ->
              IF Len(r) >= 2 /\ r[2] = "B" THEN ParseData(a, TRUE, SubSeq(r, 3, Len(r)))
              ELSE ParseData(a, FALSE, Tail(r))
           [] OTHER -> ParseVerb(a, MeasVerb(r), FALSE)

ParseCommand(s) == IF s = <<>> THEN NoCmd ELSE ParseBody(Head(s), Tail(s))

\* ------------------------------------------------------------------ checksum
\* Characters by ASCII code 32..126.
Printable ==
    <<" ", "!", "DQUOTE", "#", "$", "%", "&", "'", "(", ")", "*", "+", ",", "-", ".", "/",
      "0", "1", "2", "3", "4", "5", "6", "7", "8", "9", ":", ";", "<", "=", ">", "?",
      "@", "A", "B", "C", "D", "E", "F", "G", "H", "I", "J", "K", "L", "M", "N", "O",
      "P", "Q", "R", "S", "T", "U", "V", "W", "X", "Y", "Z", "[", "BSLASH", "]", "^", "_",
      "BTICK", "a", "b", "c", "d", "e", "f", "g", "h", "i", "j", "k", "l", "m", "n", "o",
      "p", "q", "r", "s", "t", "u", "v", "w", "x", "y", "z", "{", "|", "}", "~">>

AsciiCode(c) ==
    IF c = CR THEN 13 ELSE IF c = LF THEN 10 ELSE IF c = NUL THEN 0
    ELSE 31 + (CHOOSE i \in 1..Len(Printable) : Printable[i] = c)

AsciiChar(n) == IF n \in 32..126 THEN Printable[n - 31] ELSE "DEL"

\* a ^ b, bit by bit
RECURSIVE BitXor(_, _)
BitXor(a, b) ==
    IF a = 0 THEN b ELSE IF b = 0 THEN a
    ELSE LET hi == BitXor(a \div 2, b \div 2)
         IN  IF hi >= 0 THEN 2 * hi + ((a + b) % 2) ELSE 0

\* n times: if (crc & 1) { crc >>= 1; crc ^= 0xA001; } else { crc >>= 1; }
RECURSIVE CrcShiftN(_, _)
CrcShiftN(crc, n) ==
    IF n = 0 THEN crc
    ELSE LET next == IF crc % 2 = 1 THEN BitXor(crc \div 2, 40961) ELSE crc \div 2
         IN  IF next >= 0 THEN CrcShiftN(next, n - 1) ELSE 0

CrcShift(crc) == CrcShiftN(crc, 8)

\* for each character: crc ^= c, then eight shift steps
RECURSIVE CrcFrom(_, _, _)
CrcFrom(text, i, crc) ==
    IF i > Len(text) THEN crc
    ELSE LET next == CrcShift(BitXor(crc, AsciiCode(text[i])))
         IN  IF next >= 0 THEN CrcFrom(text, i + 1, next) ELSE 0

CrcOf(text) == CrcFrom(text, 1, 0)

\* The three characters that carry the 16 bits of crc.
CrcChars(crc) ==
    << AsciiChar(64 + (crc \div 4096)), AsciiChar(64 + ((crc \div 64) % 64)),
       AsciiChar(64 + (crc % 64)) >>

CrcAscii(text) == CrcChars(CrcOf(text))


\* ------------------------------------------------------------ device object
\* The SDI12Sensor objects of the process; the sketch owns the one named sensor.
Sensors == {"sensor", "other"}
NoSensor == "none"
\* The address the second object is constructed with.
OtherAddress == "7"

\* A device context S: the fields of every object and the class-wide registry.
\*   address[d]: sensor_address_   active[d]: active_   state[d]: state_
\*   crc[d]: crc_requested_        last: last_set_active_object_
\*   slot[d]: eeprom_address_      mem: the bytes of the EEPROM
\*   call: the SetAddress call made in the operation, if any

\* eeprom_address_ of an object that does not use the EEPROM
SDI12SENSOR_ERR_INVALID == -1

\* The EEPROM cells the model holds, and the byte of an erased cell (0xFF).
EepromSlots == 0..MaxSlot
Erased == "0xFF"

\* No SetAddress call was made.
NoCall == [made |-> FALSE, address |-> NUL, ret |-> FALSE, wrote |-> FALSE]

Address(S, d) == S.address[d]

\* SetActive as it would be if a second activation overwrote the registry.
SetActive_Overwrite(S, d, status) ==
    IF status THEN [S EXCEPT !.active[d] = TRUE, !.last = d]
    ELSE [S EXCEPT !.active[d] = FALSE, !.last = IF S.last = d THEN NoSensor ELSE S.last]

\* SetActive(true) while another object is active is rejected.
SetActive(S, d, status) ==
    IF status
    THEN IF S.last \in {NoSensor, d}
         THEN [S EXCEPT !.active[d] = TRUE, !.last = d]
         ELSE S
    ELSE [S EXCEPT !.active[d] = FALSE, !.last = IF S.last = d THEN NoSensor ELSE S.last]

IsActive(S, d) == S.active[d]

IsSetLastActive(S) == S.last # NoSensor

LastActive(S) == S.last

\* Clears the registry; the object it named is no longer active.
ClearLastActive(S) ==
    IF S.last = NoSensor THEN S
    ELSE [S EXCEPT !.active[S.last] = FALSE, !.last = NoSensor]

SetState(S, d, st) == [S EXCEPT !.state[d] = st]

CrcRequested(S, d) == S.crc[d]

StateOfVerb(primary) ==
    CASE primary = kMeasurement -> kStateMeasurement
      [] primary = kConcurrentMeasurement -> kStateConcurrent
      [] primary \in {kHighVolumeASCII, kHighVolumeByte} -> kStateHighMeasurement
      [] primary = kContinuousMeasurement -> kStateContinuous
      [] primary = kVerification -> kStateVerify
      [] OTHER -> kStateReady

\* The state a command moves the device to, and its check-code request.
DefineState(S, d, p) ==
    [S EXCEPT !.crc[d] = p.crc,
              !.state[d] = IF p.primary = kIdentification
                           THEN IF p.secondary \in MeasurementClass /\ p.param2 = 0
                                THEN StateOfVerb(p.secondary) ELSE kStateReady
                           ELSE StateOfVerb(p.primary)]

\* EEPROM.update(idx, val)
EepromUpdate(mem, idx, val) == [mem EXCEPT ![idx] = val]

\* SetAddress as it would be without the isalnum test.
SetAddress_NoCheck(S, d, address) ==
    IF S.slot[d] >= 0
    THEN [S EXCEPT !.address[d] = address,
                   !.mem = EepromUpdate(S.mem, S.slot[d], address),
                   !.call = [made |-> TRUE, address |-> address, ret |-> TRUE, wrote |-> TRUE]]
    ELSE [S EXCEPT !.address[d] = address,
                   !.call = [made |-> TRUE, address |-> address, ret |-> TRUE, wrote |-> FALSE]]

\* SetAddress as it would be if the address were not mirrored to the EEPROM.
SetAddress_NoMirror(S, d, address) ==
    IF isalnum(address)
    THEN [S EXCEPT !.address[d] = address,
                   !.call = [made |-> TRUE, address |-> address, ret |-> TRUE, wrote |-> FALSE]]
    ELSE [S EXCEPT !.call = [made |-> TRUE, address |-> address, ret |-> FALSE,
                             wrote |-> FALSE]]

\* bool SetAddress(const char address); call.ret is the value returned.
SetAddress(S, d, address) ==
    IF isalnum(address)
    THEN IF S.slot[d] >= 0
         THEN [S EXCEPT !.address[d] = address,
                        !.mem = EepromUpdate(S.mem, S.slot[d], address),
                        !.call = [made |-> TRUE, address |-> address, ret |-> TRUE,
                                  wrote |-> TRUE]]
         ELSE [S EXCEPT !.address[d] = address,
                        !.call = [made |-> TRUE, address |-> address, ret |-> TRUE,
                                  wrote |-> FALSE]]
    ELSE [S EXCEPT !.call = [made |-> TRUE, address |-> address, ret |-> FALSE,
                             wrote |-> FALSE]]

\* char GetAddressFromEEPROM(void) const, for an object with slot eeprom_address
GetAddressFromEEPROM(mem, eeprom_address) ==
    IF eeprom_address >= 0 THEN mem[eeprom_address] ELSE NUL

\* SDI12Sensor(void): [address, slot]
ConstructDefault == [address |-> DEFAULT_SENSOR_ADDR, slot |-> SDI12SENSOR_ERR_INVALID]

\* The constructor as it would be without the reset to the default address.
Construct_NoDefault(address, eeprom_address, mem) ==
    IF eeprom_address >= 0
    THEN [address |-> GetAddressFromEEPROM(mem, eeprom_address), slot |-> eeprom_address]
    ELSE [address |-> address, slot |-> SDI12SENSOR_ERR_INVALID]

\* SDI12Sensor(const char address, const int eeprom_address): [address, slot]
Construct(address, eeprom_address, mem) ==
    LET slot == IF eeprom_address >= 0 THEN eeprom_address ELSE SDI12SENSOR_ERR_INVALID
        first == IF eeprom_address >= 0 THEN GetAddressFromEEPROM(mem, eeprom_address)
                 ELSE address
    IN  [address |-> IF isalnum(first) THEN first ELSE DEFAULT_SENSOR_ADDR, slot |-> slot]

\* ------------------------------------------------------------- bus events
Send(text, site) == [ev |-> "send", text |-> text, site |-> site]
Ev(name) == [ev |-> name, text |-> <<>>, site |-> ""]
WriteBytes(bytes) == [ev |-> "writeBytes", text |-> bytes, site |-> ""]

IdString ==
    <<"1", "3", "C", "O", "M", "P", "N", "A", "M", "E", "0", "0", "0", "0", "0", "1",
      "1", ".", "0", "0", "0", "1">>

\* The switch of parseSdi12Cmd as it would be if an unknown verb added nothing to
\* the address.
ParseSwitch_UnknownBlank(S, p) ==
    LET responseStr == <<Address(S, LastActive(S))>>
    IN  CASE p.primary = kAcknowledge -> [S |-> S, responseStr |-> responseStr]
          [] p.primary = kIdentification ->
                [S |-> S,
                 responseStr |-> IF p.secondary = kUnknown THEN responseStr \o IdString
                                 ELSE responseStr]
          [] p.primary = kAddressChange ->
                LET S1 == SetAddress(S, LastActive(S), p.param1)
                IN  [S |-> S1, responseStr |-> <<Address(S1, LastActive(S1))>>]
          [] OTHER -> [S |-> S, responseStr |-> responseStr]

\* The switch of parseSdi12Cmd as it would be if the reply to an address change
\* were built before the change.
ParseSwitch_ReplyOld(S, p) ==
    LET responseStr == <<Address(S, LastActive(S))>>
    IN  CASE p.primary = kAcknowledge -> [S |-> S, responseStr |-> responseStr]
          [] p.primary = kIdentification ->
                [S |-> S,
                 responseStr |-> IF p.secondary = kUnknown THEN responseStr \o IdString
                                 ELSE responseStr]
          [] p.primary = kAddressChange ->
                [S |-> SetAddress(S, LastActive(S), p.param1), responseStr |-> responseStr]
          [] OTHER -> [S |-> S, responseStr |-> responseStr \o <<"U", "N", "K">> \o CRLF]

\* ------------------------------------------------------------ parseSdi12Cmd
\* The switch of parseSdi12Cmd on the verbs it answers itself: [S, responseStr].
ParseSwitch(S, p) ==
    LET responseStr == <<Address(S, LastActive(S))>>
    IN  CASE p.primary = kAcknowledge -> [S |-> S, responseStr |-> responseStr]
          [] p.primary = kIdentification ->
                [S |-> S,
                 responseStr |-> IF p.secondary = kUnknown THEN responseStr \o IdString
                                 ELSE responseStr]
          [] p.primary = kAddressChange ->
                LET S1 == SetAddress(S, LastActive(S), p.param1)
                IN  [S |-> S1, responseStr |-> <<Address(S1, LastActive(S1))>>]
          [] OTHER -> [S |-> S, responseStr |-> responseStr \o <<"U", "N", "K">> \o CRLF]

\* The reply of parseSdi12Cmd as it would be without ClearLastActive(): the object
\* stays active for the state switch of loop().
ParseRespond_KeepActive(p, sw) ==
    IF IsSetLastActive(sw.S)
    THEN [S |-> sw.S, p |-> p, ev |-> <<Send(sw.responseStr \o CRLF, "parse")>>]
    ELSE [S |-> sw.S, p |-> p, ev |-> <<>>]

\* sendResponse(responseStr + "\r\n") and ClearLastActive(), when an object is set.
ParseRespond(p, sw) ==
    IF IsSetLastActive(sw.S)
    THEN [S |-> ClearLastActive(sw.S), p |-> p,
          ev |-> <<Send(sw.responseStr \o CRLF, "parse")>>]
    ELSE [S |-> sw.S, p |-> p, ev |-> <<>>]

\* The command is for this device and S1 holds the state it defined.
ParseAddressed(p, S1) ==
    IF p.primary \in {kAcknowledge, kIdentification, kAddressChange, kUnknown}
    THEN ParseRespond(p, ParseSwitch(S1, p))
    ELSE [S |-> S1, p |-> p, ev |-> <<>>]

\* SDI12Sensor::LastActive()->DefineState(parsed_cmd)
DefineLastActive(S0, p) == DefineState(S0, LastActive(S0), p)

\* The address match as it would be if every address were taken for the device's.
ParseMatch_AnyAddress(p, S) ==
    ParseAddressed(p, DefineLastActive(SetActive(S, "sensor", TRUE), p))

\* The address match as it would be if the wildcard '?' stood for the device's own
\* address with every verb.
ParseMatch_Wildcard(p, S) ==
    IF p.address = Address(S, "sensor") \/ p.address = "?"
    THEN ParseAddressed(p, DefineLastActive(SetActive(S, "sensor", TRUE), p))
    ELSE [S |-> S, p |-> p, ev |-> <<>>]

\* The address match on the parsed command p.
ParseMatch(p, S) ==
    IF p.address = Address(S, "sensor")
    THEN ParseAddressed(p, DefineLastActive(SetActive(S, "sensor", TRUE), p))
    ELSE IF p.primary = kAddressQuery
    THEN [S |-> SetState(SetActive(S, "sensor", TRUE), "sensor", kStateReady),
          p |-> p, ev |-> <<>>]
    ELSE [S |-> S, p |-> p, ev |-> <<>>]

parseSdi12Cmd(command, S) == ParseMatch(ParseCommand(command), S)

\* -------------------------------------------------------------------- state
VARIABLES
    sensor_address_,          \* SDI12Sensor::sensor_address_ of every object
    active_,                  \* SDI12Sensor::active_ of every object
    last_set_active_object_,  \* the class-wide last-active registry
    state_,                   \* SDI12Sensor::state_ of every object
    crc_requested_,           \* SDI12Sensor::crc_requested_ of every object
    eeprom_address_,          \* SDI12Sensor::eeprom_address_ of every object
    EEPROM,                   \* the bytes of the EEPROM
    call,                     \* the SetAddress call of the latest operation, if any
    rx,                       \* bytes waiting in the bus receive buffer
    lineBreak,                \* the transceiver's line-break marking
    dValues,                  \* loop(): static String dValues[10]
    commandReceived,          \* loop(): static String commandReceived
    measurementValues,        \* loop(): static float measurementValues[9]
    parsed_cmd,               \* loop(): parsed_cmd, kept across the acquisition delay
    pc,                       \* "idle": between loop() calls; "delay": inside delay(2000)
    trace,                    \* bus and source events of the latest response cycle
    cycle,                    \* what the latest cycle was handed, whether a break was
                              \* marked when its acquisition began, what its window saw
    fin,                      \* the arguments of the call under study, if any
    fout                      \* what that call returned or wrote, once it has run

vars == <<sensor_address_, active_, last_set_active_object_, state_, crc_requested_,
          eeprom_address_, EEPROM, call, rx, lineBreak, dValues, commandReceived, measurementValues, parsed_cmd,
          pc, trace, cycle, fin, fout>>

SensorCtx ==
    [address |-> sensor_address_, active |-> active_, last |-> last_set_active_object_,
     state |-> state_, crc |-> crc_requested_,
     slot |-> eeprom_address_, mem |-> EEPROM, call |-> NoCall]

NoCycle ==
    [cmd |-> <<>>, parsed |-> FALSE, pre |-> FALSE, brk |-> FALSE, bytes |-> <<>>,
     waited |-> FALSE]

ZeroValues == [i \in 1..MEASUREMENT_ARRAY_MAX_SIZE |-> Val(FALSE, 0, 0)]

\* No call under study.
NoArgs == [fn |-> "none"]

\* Everything but the construction of the sketch's sensor object and the call under
\* study.
InitSketch ==
    /\ active_ = [d \in Sensors |-> FALSE]
    /\ last_set_active_object_ = NoSensor
    /\ state_ = [d \in Sensors |-> kStateReady]
    /\ crc_requested_ = [d \in Sensors |-> FALSE]
    /\ call = NoCall
    /\ rx = <<>>
    /\ lineBreak = FALSE
    /\ dValues = BlankLines
    /\ commandReceived = <<>>
    /\ measurementValues = ZeroValues
    /\ parsed_cmd = NoCmd
    /\ pc = "idle"
    /\ trace = <<>>
    /\ cycle = NoCycle

\* The sketch as it stands when no single call is under study.
InitRest ==
    /\ fin = NoArgs
    /\ fout = NoArgs
    /\ InitSketch

\* The objects as constructed: the sketch's sensor with the outcome made of its
\* constructor, the second object without EEPROM use.
Constructed(made) ==
    /\ sensor_address_ = [d \in Sensors |-> IF d = "sensor" THEN made.address
                                            ELSE OtherAddress]
    /\ eeprom_address_ = [d \in Sensors |-> IF d = "sensor" THEN made.slot
                                            ELSE SDI12SENSOR_ERR_INVALID]

\* SDI12Sensor sensor('0', -1); the EEPROM is erased.
Init ==
    /\ EEPROM = [i \in EepromSlots |-> Erased]
    /\ Constructed(Construct("0", -1, EEPROM))
    /\ InitRest

\* ------------------------------------------------------------- loop(): parts
\* A loop context R: S device context, d dValues, cr commandReceived, rxb receive
\* buffer, lb line-break marking, mv measurementValues, response, ev events so far.

\* The check code as it would be if it were computed over the payload without the
\* address.
AddCrc_PayloadOnly(S, response) ==
    IF CrcRequested(S, "sensor") THEN response \o CrcAscii(Tail(response)) ELSE response

AddCrc(S, response) == IF CrcRequested(S, "sensor") THEN response \o CrcAscii(response) ELSE response

\* for (a = 0; a < avail; a++): the command bytes up to the first '!'
RECURSIVE BangAt(_, _)
BangAt(buf, i) ==
    IF i > Len(buf) THEN 0 ELSE IF buf[i] = "!" THEN i ELSE BangAt(buf, i + 1)

\* for (int a = 0; a < slaveSDI12.available(); a++) { read; '!' clears the buffer }
RECURSIVE CancelRead(_, _, _)
CancelRead(a, rxb, cr) ==
    IF a < Len(rxb)
    THEN IF Head(rxb) = "!" THEN [rxb |-> <<>>, cr |-> cr]
         ELSE CancelRead(a + 1, Tail(rxb), Append(cr, Head(rxb)))
    ELSE [rxb |-> rxb, cr |-> cr]

\* The tail of loop() as it would be without the final sendResponse.
Finish_NoNotice(R, p) ==
    [R EXCEPT !.S = SetActive(SetState(R.S, "sensor", kStateReady), "sensor", FALSE),
              !.ev = Append(R.ev, Ev("forceListen"))]

\* The tail of loop() as it would be without the closing forceListen.
Finish_NoListen(R, p) ==
    LET sent == IF IsActive(R.S, "sensor") \/ p.primary = kAddressQuery
                THEN <<Send(R.response \o CRLF, "final")>> ELSE <<>>
    IN  [R EXCEPT !.S = SetActive(SetState(R.S, "sensor", kStateReady), "sensor", FALSE),
                  !.ev = R.ev \o sent]

\* The tail of loop(): the final reply, Ready, inactive, listen again.
Finish(R, p) ==
    LET sent == IF IsActive(R.S, "sensor") \/ p.primary = kAddressQuery
                THEN <<Send(R.response \o CRLF, "final")>> ELSE <<>>
    IN  [R EXCEPT !.S = SetActive(SetState(R.S, "sensor", kStateReady), "sensor", FALSE),
                  !.ev = R.ev \o sent \o <<Ev("forceListen")>>]

\* The reply to aDx! as it would be if every request returned response line 0.
DataReply_SlotZero(R, p) ==
    [R EXCEPT !.response = AddCrc(R.S, R.response \o R.d[0])]

\* aDx!: the requested response line, and the check code when requested
DataReply(R, p) ==
    [R EXCEPT !.response =
        AddCrc(R.S, IF p.param1 < MEASUREMENT_STR_ARRAY_MAX_ELEMENT
                    THEN R.response \o R.d[p.param1] ELSE R.response)]

\* kStateReady
ReadyReply(R, p) ==
    CASE p.primary = kAddressQuery -> R
      [] p.primary = kDataRequest -> DataReply(R, p)
      [] p.primary = kByteDataRequest ->
            [R EXCEPT !.S = SetActive(R.S, "sensor", FALSE),
                      !.ev = R.ev \o <<Send(<<>>, "mark"),
                                       WriteBytes(<<Address(R.S, "sensor"), "len0", "kInvalidDataType">>
                                                  \o IF CrcRequested(R.S, "sensor") THEN <<"crc16">> ELSE <<>>)>>]
      [] p.primary = kIdentification ->
            LET fields ==
                    IF p.param1 = 0 /\ p.param2 > 0 /\ p.param2 <= MEASUREMENT_ARRAY_MAX_SIZE
                    THEN IF p.secondary = kMeasurement
                         THEN <<",", "f", "i", "e", "l", "d", "1", ",",
                                "f", "i", "e", "l", "d", "2", ";">>
                         ELSE IF p.secondary = kConcurrentMeasurement
                         THEN <<",", "f", "i", "e", "l", "d", "1", ",",
                                "f", "i", "e", "l", "d", "2", ",",
                                "f", "i", "e", "l", "d", "3", ";">>
                         ELSE <<>>
                    ELSE <<>>
                r == R.response \o fields
            IN  [R EXCEPT !.response = IF p.param2 > 0 THEN AddCrc(R.S, r) ELSE r]
      [] OTHER -> R

\* The Measurement tail as it would be if the line-break marking were not consulted.
MeasurementTail_IgnoreBreak(R) ==
    LET R1 == IF ~IsActive(R.S, "sensor")
              THEN [R EXCEPT !.d = BlankLines, !.S = SetActive(R.S, "sensor", FALSE)]
              ELSE [R EXCEPT !.d = formatOutputSDI(R.mv, R.d, SDI12_VALUES_STR_SIZE_35),
                             !.ev = Append(R.ev, Ev("pack")),
                             !.response = <<Address(R.S, "sensor")>>]
    IN  [R1 EXCEPT !.lb = FALSE]

\* The Measurement tail as it would be if waiting bytes cancelled like a line break.
MeasurementTail_CancelOnBytes(R) ==
    LET R1 == IF R.lb \/ R.rxb # <<>> \/ ~IsActive(R.S, "sensor")
              THEN [R EXCEPT !.d = BlankLines, !.S = SetActive(R.S, "sensor", FALSE)]
              ELSE [R EXCEPT !.d = formatOutputSDI(R.mv, R.d, SDI12_VALUES_STR_SIZE_35),
                             !.ev = Append(R.ev, Ev("pack")),
                             !.response = <<Address(R.S, "sensor")>>]
    IN  [R1 EXCEPT !.lb = FALSE]

\* kStateMeasurement after the timing reply: the cancellation check and packing
MeasurementTail(R) ==
    LET R1 == IF R.lb \/ ~IsActive(R.S, "sensor")
              THEN [R EXCEPT !.d = BlankLines, !.S = SetActive(R.S, "sensor", FALSE)]
              ELSE [R EXCEPT !.d = formatOutputSDI(R.mv, R.d, SDI12_VALUES_STR_SIZE_35),
                             !.ev = Append(R.ev, Ev("pack")),
                             !.response = <<Address(R.S, "sensor")>>]
    IN  [R1 EXCEPT !.lb = FALSE]

\* The bytes the cancellation loop moves from the bus into commandReceived.
WindowRead(R) ==
    LET c == CancelRead(0, R.rxb, R.cr)
    IN  [R EXCEPT !.rxb = c.rxb, !.cr = c.cr]

\* sensor.SetActive(false)
Deactivate(R) == [R EXCEPT !.S = SetActive(R.S, "sensor", FALSE)]

\* if (!sensor.IsActive() || ParseCommand(commandReceived, address).address == address)
Cancelled(R) ==
    ~IsActive(R.S, "sensor") \/ ParseCommand(R.cr).address = Address(R.S, "sensor")

\* The Concurrent state as it would be if a cancelled cycle left the lines alone.
ConcurrentPack_KeepLines(R) ==
    IF Cancelled(R) THEN R
    ELSE [R EXCEPT !.d = formatOutputSDI(R.mv, R.d, SDI12_VALUES_STR_SIZE_75),
                   !.ev = Append(R.ev, Ev("pack"))]

ConcurrentPack(R) ==
    IF Cancelled(R) THEN [R EXCEPT !.d = BlankLines]
    ELSE [R EXCEPT !.d = formatOutputSDI(R.mv, R.d, SDI12_VALUES_STR_SIZE_75),
                   !.ev = Append(R.ev, Ev("pack"))]

\* kStateConcurrent after the timing reply
ConcurrentTail(R) == Deactivate(ConcurrentPack(WindowRead(R)))

HighPack(R, p) ==
    IF p.primary # kHighVolumeASCII THEN R
    ELSE IF Cancelled(R) THEN [R EXCEPT !.d = BlankLines]
    ELSE [R EXCEPT !.d = formatOutputSDI(R.mv, R.d, SDI12_VALUES_STR_SIZE_75),
                   !.ev = Append(R.ev, Ev("pack"))]

\* kStateHighMeasurement after the timing reply
HighTail(R, p) == Deactivate(HighPack(WindowRead(R), p))

\* if (len > 0) response += buffer, for the value read from the source
AppendValue(R, v) ==
    [R EXCEPT !.mv = pollSensor, !.ev = Append(R.ev, Ev("poll")),
              !.response = IF v.len # 0 THEN R.response \o v.str ELSE R.response]

\* kStateContinuous as it would be if the index were ignored and the first value
\* were encoded.
ContinuousValue_FirstValue(R, p) ==
    IF p.param1 < MEASUREMENT_ARRAY_MAX_SIZE
    THEN AppendValue(R, dtoa(pollSensor[1], 6, SDI12_VALUE_STR_SIZE, FALSE, TRUE))
    ELSE R

ContinuousValue(R, p) ==
    IF p.param1 < MEASUREMENT_ARRAY_MAX_SIZE
    THEN AppendValue(R, dtoa(pollSensor[p.param1 + 1], 6, SDI12_VALUE_STR_SIZE, FALSE, TRUE))
    ELSE R

CrcReply(R) == [R EXCEPT !.response = AddCrc(R.S, R.response)]

\* kStateContinuous as it would be if it emptied the response lines.
ContinuousReply_ClearLines(R, p) ==
    [CrcReply(ContinuousValue(R, p)) EXCEPT !.d = BlankLines]

\* kStateContinuous
ContinuousReply(R, p) == CrcReply(ContinuousValue(R, p))

\* kStateVerify as it would be if the response lines were left as they are.
VerifyReply_KeepLines(R, p) ==
    LET r == R.response \o <<"0", "0", "0", "0">>
    IN  IF p.primary = kIdentification THEN [R EXCEPT !.response = r]
        ELSE [R EXCEPT !.response = r \o CRLF,
                       !.ev = Append(R.ev, Send(r \o CRLF, "timing")),
                       !.S = SetActive(R.S, "sensor", FALSE)]

\* kStateVerify
VerifyReply(R, p) ==
    LET r == R.response \o <<"0", "0", "0", "0">>
    IN  IF p.primary = kIdentification THEN [R EXCEPT !.response = r]
        ELSE [R EXCEPT !.response = r \o CRLF,
                       !.ev = Append(R.ev, Send(r \o CRLF, "timing")),
                       !.d = BlankLines,
                       !.S = SetActive(R.S, "sensor", FALSE)]

\* The timing reply as it would be if an unsupported index left the device active.
TimingReply_KeepActive(R, p, token, supported) ==
    LET r == R.response \o token
    IN  IF p.primary = kIdentification
        THEN [R |-> [R EXCEPT !.response = r], wait |-> FALSE, probe |-> TRUE]
        ELSE LET R1 == [R EXCEPT !.response = r \o CRLF,
                                 !.ev = Append(R.ev, Send(r \o CRLF, "timing"))]
             IN  IF supported
                 THEN [R |-> [R1 EXCEPT !.ev = Append(R1.ev, Ev("delay"))],
                       wait |-> TRUE, probe |-> FALSE]
                 ELSE [R |-> R1, wait |-> FALSE, probe |-> FALSE]

\* The timing reply of a measurement state: [R, wait, probe]; wait: delay(2000)
\* follows; probe: the identification variant, which breaks out of the state.
TimingReply(R, p, token, supported) ==
    LET r == R.response \o token
    IN  IF p.primary = kIdentification
        THEN [R |-> [R EXCEPT !.response = r], wait |-> FALSE, probe |-> TRUE]
        ELSE LET R1 == [R EXCEPT !.response = r \o CRLF,
                                 !.ev = Append(R.ev, Send(r \o CRLF, "timing"))]
             IN  IF supported
                 THEN [R |-> [R1 EXCEPT !.ev = Append(R1.ev, Ev("delay"))],
                       wait |-> TRUE, probe |-> FALSE]
                 ELSE [R |-> [R1 EXCEPT !.S = SetActive(R1.S, "sensor", FALSE)],
                       wait |-> FALSE, probe |-> FALSE]


\* The switch on sensor.state_ up to the acquisition delay: [R, wait].
Dispatch(R, p) ==
    IF ~(IsActive(R.S, "sensor") \/ p.primary = kAddressQuery)
    THEN [R |-> R, wait |-> FALSE]
    ELSE
      LET R0 == [R EXCEPT !.response = <<Address(R.S, "sensor")>>]
          st == R.S.state["sensor"]
          done(X) == [R |-> Finish(X, p), wait |-> FALSE]
          timed(t, tail) ==
              IF t.probe THEN done(t.R)
              ELSE IF t.wait THEN [R |-> t.R, wait |-> TRUE]
              ELSE done(tail)
      IN  CASE st = kStateReady -> done(ReadyReply(R0, p))
            [] st = kStateMeasurement ->
                  LET t == TimingReply(R0, p,
                               IF p.param1 = 0 THEN <<"0", "2", "1", "9">>
                               ELSE <<"0", "0", "0", "0">>, p.param1 = 0)
                  IN  timed(t, MeasurementTail(t.R))
            [] st = kStateConcurrent ->
                  LET t == TimingReply(R0, p,
                               IF p.param1 = 0 THEN <<"0", "2", "1", "0", "9">>
                               ELSE <<"0", "0", "0", "0", "0">>, p.param1 = 0)
                  IN  timed(t, ConcurrentTail(t.R))
            [] st = kStateHighMeasurement ->
                  LET t == TimingReply(R0, p, <<"0", "2", "1", "0", "0", "9">>, TRUE)
                  IN  timed(t, HighTail(t.R, p))
            [] st = kStateContinuous -> done(ContinuousReply(R0, p))
            [] st = kStateVerify -> done(VerifyReply(R0, p))
            [] OTHER -> done(R0)

\* After delay(2000): pollSensor, the state's cancellation check, the tail of loop().
AfterDelay(R, p) ==
    LET R1 == [R EXCEPT !.mv = pollSensor, !.ev = Append(R.ev, Ev("poll"))]
    IN  CASE R1.S.state["sensor"] = kStateMeasurement -> Finish(MeasurementTail(R1), p)
          [] R1.S.state["sensor"] = kStateConcurrent -> Finish(ConcurrentTail(R1), p)
          [] OTHER -> Finish(HighTail(R1, p), p)

\* --------------------------------------------------------------- the master
Bang == "!"
MasterCommands ==
    { <<"0", Bang>>, <<"?", Bang>>, <<"5", Bang>>, <<"0">>, <<Bang>>,
      <<"0", "I", Bang>>, <<"0", "I", "M", Bang>>, <<"0", "I", "C", Bang>>,
      <<"0", "I", "M", "_", "0", "0", "1", Bang>>,
      <<"0", "A", "5", Bang>>, <<"0", "A", "$", Bang>>, <<"5", "A", "0", Bang>>,
      <<"0", "M", Bang>>, <<"0", "M", "1", Bang>>, <<"0", "M", "C", Bang>>,
      <<"5", "M", Bang>>, <<"1", "M", Bang>>,
      <<"0", "C", Bang>>, <<"0", "C", "1", Bang>>,
      <<"0", "D", "0", Bang>>, <<"0", "D", "1", Bang>>, <<"0", "D", "1", "0", Bang>>,
      <<"5", "D", "0", Bang>>, <<"0", "D", "B", "0", Bang>>,
      <<"0", "R", "0", Bang>>, <<"0", "R", "C", "8", Bang>>, <<"0", "R", "9", Bang>>,
      <<"0", "V", Bang>>, <<"0", "H", "A", Bang>>, <<"0", "H", "B", Bang>>,
      <<"0", "X", Bang>> }

\* The master puts the bytes of a transmission on the bus.
MasterSend(c) ==
    /\ rx = <<>> \/ Len(rx) + Len(c) <= MaxRx
    /\ BangAt(c, 1) = 0 => Len(commandReceived) + Len(rx) + Len(c) <= MaxPartial
    /\ rx' = rx \o c
    /\ UNCHANGED <<sensor_address_, active_, last_set_active_object_, state_,
                   crc_requested_, eeprom_address_, EEPROM, call, lineBreak, dValues,
                   commandReceived, measurementValues, parsed_cmd, pc, trace, cycle,
                   fin, fout>>

\* The master holds the line in a break; the transceiver marks it.
MasterBreak ==
    /\ ~lineBreak
    /\ lineBreak' = TRUE
    /\ UNCHANGED <<sensor_address_, active_, last_set_active_object_, state_,
                   crc_requested_, eeprom_address_, EEPROM, call, rx, dValues,
                   commandReceived, measurementValues, parsed_cmd, pc, trace, cycle,
                   fin, fout>>

\* ------------------------------------------------------------------- loop()
Commit(R) ==
    /\ sensor_address_' = R.S.address
    /\ active_' = R.S.active
    /\ last_set_active_object_' = R.S.last
    /\ state_' = R.S.state
    /\ crc_requested_' = R.S.crc
    /\ eeprom_address_' = R.S.slot
    /\ EEPROM' = R.S.mem
    /\ call' = R.S.call
    /\ rx' = R.rxb
    /\ lineBreak' = R.lb
    /\ dValues' = R.d
    /\ commandReceived' = R.cr
    /\ measurementValues' = R.mv
    /\ trace' = R.ev
    /\ UNCHANGED <<fin, fout>>

\* slaveSDI12.forceListen() after parseSdi12Cmd
Listening(q) == [q EXCEPT !.ev = Append(q.ev, Ev("forceListen"))]

\* The end of the call, or its suspension in delay(2000), with the outcome D.
LoopEnd(k, command, p, D) ==
    /\ Commit(D.R)
    /\ pc' = IF D.wait THEN "delay" ELSE "idle"
    /\ parsed_cmd' = IF D.wait THEN p ELSE NoCmd
    /\ cycle' = [cmd |-> IF k = 0 THEN <<>> ELSE command, parsed |-> k # 0,
                 pre |-> D.wait /\ lineBreak, brk |-> FALSE, bytes |-> <<>>,
                 waited |-> D.wait]

\* The switch on the state as it would be entered without
\* ClearLineMarkingReceived() after the command was parsed.
LoopSwitch_KeepBreak(k, command, pr) ==
    LoopEnd(k, command, pr.p,
            Dispatch([S |-> pr.S, d |-> dValues,
                      cr |-> IF k = 0 THEN command ELSE <<>>,
                      rxb |-> <<>>,
                      lb |-> lineBreak,
                      mv |-> measurementValues, response |-> <<>>, ev |-> pr.ev],
                     pr.p))

\* The switch on the state, entered with the outcome pr of the receive step.
LoopSwitch(k, command, pr) ==
    LoopEnd(k, command, pr.p,
            Dispatch([S |-> pr.S, d |-> dValues,
                      cr |-> IF k = 0 THEN command ELSE <<>>,
                      rxb |-> <<>>,
                      lb |-> IF k = 0 THEN lineBreak ELSE FALSE,
                      mv |-> measurementValues, response |-> <<>>, ev |-> pr.ev],
                     pr.p))

\* One call of loop() with bytes available, up to its end or to delay(2000).
LoopIteration ==
    /\ pc = "idle"
    /\ rx # <<>>
    /\ LET k == BangAt(rx, 1)
           command == commandReceived \o (IF k = 0 THEN rx ELSE SubSeq(rx, 1, k - 1))
       IN  LoopSwitch(k, command,
                      IF k = 0 THEN [S |-> SensorCtx, p |-> NoCmd, ev |-> <<>>]
                      ELSE Listening(parseSdi12Cmd(command, SensorCtx)))

\* The rest of that call of loop(), once delay(2000) has elapsed.
LoopResume ==
    /\ pc = "delay"
    /\ LET R == [S |-> SensorCtx, d |-> dValues, cr |-> commandReceived, rxb |-> rx,
                 lb |-> lineBreak, mv |-> measurementValues, response |-> <<>>,
                 ev |-> trace]
       IN  Commit(AfterDelay(R, parsed_cmd))
    /\ pc' = "idle"
    /\ parsed_cmd' = NoCmd
    /\ cycle' = [cycle EXCEPT !.brk = lineBreak, !.bytes = rx]

Next ==
    \/ \E c \in MasterCommands : MasterSend(c)
    \/ MasterBreak
    \/ LoopIteration
    \/ LoopResume

Spec == Init /\ [][Next]_vars

\* ------------------------------------------------- a second object in the process
\* The application marks the second SDI12Sensor object active or inactive between
\* two calls of loop().
OtherSetActive ==
    /\ pc = "idle"
    /\ \E status \in BOOLEAN :
          /\ active_' = SetActive(SensorCtx, "other", status).active
          /\ last_set_active_object_' = SetActive(SensorCtx, "other", status).last
    /\ UNCHANGED <<sensor_address_, state_, crc_requested_, eeprom_address_, EEPROM,
                   call, rx, lineBreak, dValues, commandReceived, measurementValues,
                   parsed_cmd, pc, trace, cycle,
                   fin, fout>>

\* The transmissions that exercise activation: one per way parseSdi12Cmd and
\* loop() set and clear the active flag, and one for another device.
RegistryCommands ==
    { <<"0", Bang>>, <<"?", Bang>>, <<"5", Bang>>, <<"0", "I", Bang>>,
      <<"0", "A", "5", Bang>>, <<"0", "M", Bang>>, <<"0", "M", "1", Bang>>,
      <<"0", "C", Bang>>, <<"0", "D", "0", Bang>>, <<"0", "X", Bang>> }

NextRegistry ==
    \/ \E c \in RegistryCommands : MasterSend(c)
    \/ LoopIteration
    \/ LoopResume
    \/ OtherSetActive

SpecRegistry == Init /\ [][NextRegistry]_vars

\* ------------------------------------------- any construction, and SetAddress
\* The sketch with its sensor object constructed in any way, over any EEPROM
\* content, and with the application calling SetAddress between calls of loop().
AddressArgs == {"0", "5", "$"}
StoredBytes == {"5", "$", Erased}
SlotArgs == -2..MaxSlot

InitAddress ==
    /\ EEPROM \in [EepromSlots -> StoredBytes]
    /\ \E address \in AddressArgs, eeprom_address \in SlotArgs, default \in BOOLEAN :
          Constructed(IF default THEN ConstructDefault
                      ELSE Construct(address, eeprom_address, EEPROM))
    /\ InitRest

\* sensor.SetAddress(address), called by the application
CallSetAddress ==
    /\ pc = "idle"
    /\ \E address \in AddressArgs :
          /\ sensor_address_' = SetAddress(SensorCtx, "sensor", address).address
          /\ EEPROM' = SetAddress(SensorCtx, "sensor", address).mem
          /\ call' = SetAddress(SensorCtx, "sensor", address).call
    /\ UNCHANGED <<active_, last_set_active_object_, state_, crc_requested_,
                   eeprom_address_, rx, lineBreak, dValues, commandReceived,
                   measurementValues, parsed_cmd, pc, trace, cycle,
                   fin, fout>>

\* The transmissions that ask for, use and change the address.
AddressCommands ==
    { <<"?", Bang>>, <<"0", Bang>>, <<"5", Bang>>, <<"0", "A", "5", Bang>>,
      <<"5", "A", "0", Bang>>, <<"0", "A", "$", Bang>>, <<"0", "I", Bang>>,
      <<"5", "D", "0", Bang>> }

NextAddress ==
    \/ \E c \in AddressCommands : MasterSend(c)
    \/ LoopIteration
    \/ CallSetAddress

SpecAddress == InitAddress /\ [][NextAddress]_vars

\* ------------------------------------------------ the constructors, one call
\* One construction of the sketch's sensor object over any EEPROM content: fin is
\* the constructor call, fout the object it made.
ConstructorCalls ==
    {[fn |-> "construct", default |-> TRUE, address |-> DEFAULT_SENSOR_ADDR,
      eeprom_address |-> SDI12SENSOR_ERR_INVALID]}
    \cup [fn : {"construct"}, default : {FALSE}, address : AddressArgs,
          eeprom_address : SlotArgs]

\* Before the constructor has run the object's fields hold nothing.
InitConstruct ==
    /\ EEPROM \in [EepromSlots -> StoredBytes]
    /\ fin \in ConstructorCalls
    /\ fout = NoArgs
    /\ Constructed([address |-> NUL, slot |-> SDI12SENSOR_ERR_INVALID])
    /\ InitSketch

\* SDI12Sensor sensor; or SDI12Sensor sensor(address, eeprom_address);
ConstructSensor ==
    /\ fin.fn = "construct" /\ fout = NoArgs
    /\ fout' = (IF fin.default THEN ConstructDefault
                ELSE Construct(fin.address, fin.eeprom_address, EEPROM))
    /\ sensor_address_' = [sensor_address_ EXCEPT !["sensor"] = fout'.address]
    /\ eeprom_address_' = [eeprom_address_ EXCEPT !["sensor"] = fout'.slot]
    /\ UNCHANGED <<active_, last_set_active_object_, state_, crc_requested_, EEPROM,
                   call, rx, lineBreak, dValues, commandReceived, measurementValues,
                   parsed_cmd, pc, trace, cycle, fin>>

NextConstruct == ConstructSensor

SpecConstruct == InitConstruct /\ [][NextConstruct]_vars

\* ------------------------------------------------------------ dtoa, one call
\* One call of dtoa: fin holds the arguments, fout what was written and returned.
MaxPrecArg == 10
DtoaWholes == {0, 1, 9, 99, 999999, 12345678, 99999999, 999999999}
DtoaFracs == {0, 15000000, 25000000, 24995000, 50000000, 4990000, 99999999}
DtoaFitLens == {0, 4, 9, 12}

DtoaValues ==
    {NaNVal}
    \cup {BigVal(neg, conv) : neg \in BOOLEAN, conv \in IntConversions}
    \cup {v \in {Val(neg, whole, frac) :
                    neg \in BOOLEAN, whole \in DtoaWholes, frac \in DtoaFracs} :
             v.neg => (v.whole > 0 \/ v.frac > 0)}

DtoaCalls ==
    [fn : {"dtoa"}, value : DtoaValues, prec : 0..MaxPrecArg, fit_len : DtoaFitLens,
     zero_trail : BOOLEAN, pos_sign : BOOLEAN]

InitDtoa ==
    /\ fin \in DtoaCalls
    /\ fout = NoArgs
    /\ EEPROM = [i \in EepromSlots |-> Erased]
    /\ Constructed(Construct("0", -1, EEPROM))
    /\ InitSketch

\* dtoa(value, str, prec, fit_len, zero_trail, pos_sign)
CallDtoa ==
    /\ fin.fn = "dtoa" /\ fout = NoArgs
    /\ fout' = dtoa(fin.value, fin.prec, fin.fit_len, fin.zero_trail, fin.pos_sign)
    /\ UNCHANGED <<sensor_address_, active_, last_set_active_object_, state_,
                   crc_requested_, eeprom_address_, EEPROM, call, rx, lineBreak,
                   dValues, commandReceived, measurementValues, parsed_cmd, pc, trace,
                   cycle, fin>>

NextDtoa == CallDtoa

SpecDtoa == InitDtoa /\ [][NextDtoa]_vars

\* ------------------------------------------------- formatOutputSDI, one call
\* One call of formatOutputSDI on the sketch's measurementValues and dValues, with
\* any earlier content of the lines: fin holds maxChar, fout the lines as they
\* were before the call.
FieldValues == {Val(FALSE, 1, 23456700), Val(FALSE, 12, 25000000)}
\* Values that encode to "NaN": the NaN, and a float of nine integral digits.
TokenValues == {NaNVal, Val(FALSE, 123456792, 0)}
LineCaps == {SDI12_VALUES_STR_SIZE_35, SDI12_VALUES_STR_SIZE_75}
UsedLines == [i \in 0..(MEASUREMENT_STR_ARRAY_MAX_ELEMENT - 1) |-> <<"+", "9">>]

InitFormat ==
    /\ \E token \in TokenValues :
          measurementValues \in
              [1..MEASUREMENT_ARRAY_MAX_SIZE -> FieldValues \cup {token}]
    /\ dValues \in {BlankLines, UsedLines}
    /\ fin \in [fn : {"formatOutputSDI"}, maxChar : LineCaps]
    /\ fout = NoArgs
    /\ EEPROM = [i \in EepromSlots |-> Erased]
    /\ Constructed(Construct("0", -1, EEPROM))
    /\ active_ = [d \in Sensors |-> FALSE]
    /\ last_set_active_object_ = NoSensor
    /\ state_ = [d \in Sensors |-> kStateReady]
    /\ crc_requested_ = [d \in Sensors |-> FALSE]
    /\ call = NoCall
    /\ rx = <<>>
    /\ lineBreak = FALSE
    /\ commandReceived = <<>>
    /\ parsed_cmd = NoCmd
    /\ pc = "idle"
    /\ trace = <<>>
    /\ cycle = NoCycle

\* formatOutputSDI(measurementValues, dValues, maxChar)
CallFormat ==
    /\ fin.fn = "formatOutputSDI" /\ fout = NoArgs
    /\ dValues' = formatOutputSDI(measurementValues, dValues, fin.maxChar)
    /\ fout' = [fn |-> "formatted", dValues |-> dValues]
    /\ UNCHANGED <<sensor_address_, active_, last_set_active_object_, state_,
                   crc_requested_, eeprom_address_, EEPROM, call, rx, lineBreak,
                   commandReceived, measurementValues, parsed_cmd, pc, trace, cycle,
                   fin>>

NextFormat == CallFormat

SpecFormat == InitFormat /\ [][NextFormat]_vars

\* ------------------------------------------------- the wildcard address '?'
\* The sketch with a master that puts '?' in front of every kind of verb, next to
\* a measurement and a data request for the device itself.
WildcardCommands ==
    { <<"?", Bang>>, <<"?", "I", Bang>>, <<"?", "A", "5", Bang>>, <<"?", "M", Bang>>,
      <<"?", "C", Bang>>, <<"?", "H", "A", Bang>>, <<"?", "V", Bang>>,
      <<"?", "R", "0", Bang>>, <<"?", "D", "0", Bang>>, <<"?", "X", Bang>>,
      <<"0", "M", Bang>>, <<"0", "D", "0", Bang>> }

NextWildcard ==
    \/ \E c \in WildcardCommands : MasterSend(c)
    \/ LoopIteration
    \/ LoopResume

SpecWildcard == Init /\ [][NextWildcard]_vars

\* ================================================================ properties
\* The sendResponse calls of the latest cycle, and the ASCII replies among them
\* (the empty sendResponse that only marks the line before byte data is none).
IsSend(e) == e.ev = "send"
IsAscii(e) == e.ev = "send" /\ e.site # "mark"
Replies == SelectSeq(trace, IsSend)
AsciiReplies == SelectSeq(trace, IsAscii)
ReplyTexts == [i \in 1..Len(AsciiReplies) |-> AsciiReplies[i].text]
Happened(name) == \E i \in 1..Len(trace) : trace[i].ev = name

\* A step that is one call of loop() with bytes available.
LoopStep == pc = "idle" /\ rx # <<>> /\ rx' = <<>>

\* The latest cycle is over and was started by a complete command.
CycleDone == pc = "idle" /\ cycle.parsed

TheAddress == sensor_address_["sensor"]
Reply(payload) == (<<TheAddress>> \o payload) \o CRLF

Timing0219 == Reply(<<"0", "2", "1", "9">>)
Timing02109 == Reply(<<"0", "2", "1", "0", "9">>)
Notice == Reply(<<>>)

Packed35 == formatOutputSDI(pollSensor, BlankLines, SDI12_VALUES_STR_SIZE_35)
Packed75 == formatOutputSDI(pollSensor, BlankLines, SDI12_VALUES_STR_SIZE_75)

\* ---- C1
HoldDone ==
    /\ CycleDone /\ TheAddress = "0" /\ cycle.cmd = <<"0", "M">>
    /\ ~cycle.brk /\ cycle.bytes = <<>>

\* C1: "0M!" to the device with address '0', with no line break and no bytes in
\* the acquisition window, gives in this order the timing reply "00219\r\n", the
\* delay, the poll of the source, the packing and the completion notice "0\r\n";
\* response line 0 is then non-empty, and a "0D0!" that follows is answered with
\* the address followed by that line.
C1_HoldMeasurement ==
    /\ [](HoldDone =>
            /\ trace = << Ev("forceListen"), Send(Timing0219, "timing"), Ev("delay"),
                          Ev("poll"), Ev("pack"), Send(Notice, "final"),
                          Ev("forceListen") >>
            /\ dValues[0] # <<>>)
    /\ [][(HoldDone /\ LoopStep /\ cycle'.cmd = <<"0", "D", "0">>)
            => ReplyTexts' = << Reply(dValues[0]) >>]_vars

C1_Witness ==
    /\ CycleDone /\ TheAddress = "0" /\ cycle.cmd = <<"0", "D", "0">>
    /\ dValues = Packed35 /\ dValues[0] # <<>>
    /\ ReplyTexts = << Reply(dValues[0]) >>

\* ---- C2
MeasurementCycle ==
    /\ CycleDone
    /\ ParseCommand(cycle.cmd).address = TheAddress
    /\ ParseCommand(cycle.cmd).primary = kMeasurement

\* C2: a Measurement cycle in whose acquisition window a line break was marked, or
\* whose device was deactivated, ends with every response line empty and with the
\* timing reply as its only reply (no completion notice).
C2_BreakDiscards ==
    (MeasurementCycle /\ (cycle.brk \/ ~cycle.waited))
        => /\ dValues = BlankLines
           /\ Len(Replies) = 1
           /\ Replies[1].site = "timing"

C2_Witness ==
    /\ MeasurementCycle /\ cycle.waited /\ cycle.brk
    /\ dValues = BlankLines /\ Len(Replies) = 1 /\ Happened("poll")

\* ---- C3
AckInWindow ==
    /\ CycleDone /\ TheAddress = "0" /\ cycle.cmd = <<"0", "M">>
    /\ cycle.bytes = <<"0", "!">>

\* C3 as amended: "0M!" and then, within the acquisition window, "0!" cancels the
\* pending measurement (all lines empty, no completion notice) when a line break
\* was marked in the window; the bytes "0!" without a line break do not cancel
\* it: the lines are packed and the completion notice is sent.
C3_AckCancelsWithBreak ==
    AckInWindow =>
        IF cycle.brk
        THEN dValues = BlankLines /\ ReplyTexts = << Timing0219 >>
        ELSE dValues = Packed35 /\ ReplyTexts = << Timing0219, Notice >>

C3_Witness == AckInWindow /\ cycle.brk /\ dValues = BlankLines

\* C3 as stated: "0M!" and then "0!" within the acquisition window leaves all
\* response lines empty and sends no completion notice.
C3_AckCancels ==
    AckInWindow => dValues = BlankLines /\ ReplyTexts = << Timing0219 >>

\* ---- C4
ConcurrentDone == CycleDone /\ TheAddress = "0" /\ cycle.cmd = <<"0", "C">>

\* Bytes of a command that starts with the device address arrived in the window.
AddressedInWindow ==
    \E i \in 1..Len(cycle.bytes) :
        /\ cycle.bytes[i] = TheAddress
        /\ i = 1 \/ cycle.bytes[i - 1] = "!"

\* C4: a Concurrent cycle ends with all response lines empty if bytes of a new
\* command with the device address arrived in the acquisition window, and with
\* the values packed under the 75-character cap otherwise; its only reply is the
\* timing reply "<address>02109\r\n".
C4_ConcurrentCancel ==
    ConcurrentDone =>
        /\ dValues = IF AddressedInWindow THEN BlankLines ELSE Packed75
        /\ ReplyTexts = << Timing02109 >>

\* ---- C5
ProbeCommand(cmd) ==
    /\ ParseCommand(cmd).address = TheAddress
    /\ ParseCommand(cmd).primary = kIdentification
    /\ ParseCommand(cmd).secondary \in MeasurementClass

\* The bare address reply is no timing or field-description reply.
ProbeAnswered == Len(ReplyTexts) = 1 /\ ReplyTexts[1] # Notice

\* C5: an identification probe of a measurement-class command addressed to the
\* device is answered with the timing or field-description reply and nothing else:
\* no poll of the source, no acquisition delay, response lines unchanged.
C5_ProbeOnlyTiming ==
    [][(LoopStep /\ cycle'.parsed /\ ProbeCommand(cycle'.cmd))
        => /\ ProbeAnswered'
           /\ ~Happened("poll")' /\ ~Happened("delay")'
           /\ pc' = "idle"
           /\ dValues' = dValues]_vars

\* ---- C6
\* C6: once the cycle of a command addressed to the device is over, the device is
\* in state Ready and not active.
C6_BackToReady ==
    (CycleDone /\ cycle.cmd # <<>> /\ Head(cycle.cmd) = TheAddress)
        => state_["sensor"] = kStateReady /\ ~active_["sensor"]

\* ---- C7
ForeignCommand(cmd) == cmd # <<>> /\ Head(cmd) \notin {TheAddress, "?"}

\* C7: a complete command whose address is neither the device address nor '?'
\* produces no reply and leaves address, state, active flag and response lines
\* unchanged.
C7_ForeignIgnored ==
    [][(LoopStep /\ cycle'.parsed /\ ForeignCommand(cycle'.cmd))
        => /\ Replies' = <<>>
           /\ UNCHANGED <<sensor_address_, state_, active_, dValues>>]_vars

C7_Witness ==
    /\ CycleDone /\ ForeignCommand(cycle.cmd) /\ Len(cycle.cmd) > 1
    /\ trace = << Ev("forceListen") >>
    /\ dValues = Packed35

\* ---- C8
\* C8: at most one object is active at any instant, and while the last-active
\* registry names an object no SetActive makes it name another one.
C8_SingleActive ==
    /\ [](Cardinality({d \in Sensors : active_[d]}) <= 1)
    /\ [][last_set_active_object_ # NoSensor
            => last_set_active_object_' \in {last_set_active_object_, NoSensor}]_vars

\* A command addressed to the device was handled while the other object was active.
C8_Witness ==
    /\ CycleDone /\ cycle.cmd = <<"0", "M">> /\ TheAddress = "0"
    /\ active_["other"] /\ last_set_active_object_ = "other"
    /\ ~active_["sensor"]

\* ---- C9
\* C9: every completed response cycle ends with forceListen, after its last reply.
C9_ListenLast ==
    CycleDone => trace # <<>> /\ trace[Len(trace)] = Ev("forceListen")

C9_Witness ==
    /\ CycleDone /\ Len(Replies) = 2
    /\ trace[Len(trace) - 1].ev = "send" /\ trace[Len(trace)] = Ev("forceListen")

\* ---- C10
\* <address><payload>\r\n with the one CR LF pair at the end
WellFormed(text) ==
    /\ Len(text) >= 3
    /\ text[1] = TheAddress
    /\ SubSeq(text, Len(text) - 1, Len(text)) = CRLF
    /\ \A j \in 1..(Len(text) - 2) : text[j] \notin {CR, LF}

\* C10: every ASCII reply starts with the device's address and holds exactly one
\* carriage-return/line-feed pair, at its end.
C10_ReplyForm == \A i \in 1..Len(ReplyTexts) : WellFormed(ReplyTexts[i])

\* ---- C11
UnknownCommand(cmd) ==
    /\ ParseCommand(cmd).address = TheAddress
    /\ ParseCommand(cmd).primary = kUnknown

\* The reply parseSdi12Cmd builds for an unknown verb.
Rejection == (<<TheAddress, "U", "N", "K">> \o CRLF) \o CRLF

\* C11: a command addressed to the device whose primary verb is Unknown produces
\* the rejection reply and nothing else: no timing reply, no delay, no poll, no
\* packing; the device is Ready afterwards and the address and the response lines
\* are unchanged.
C11_UnknownRejected ==
    [][(LoopStep /\ cycle'.parsed /\ UnknownCommand(cycle'.cmd))
        => /\ ReplyTexts' = << Rejection >>
           /\ trace' = << Send(Rejection, "parse"), Ev("forceListen") >>
           /\ pc' = "idle"
           /\ state_'["sensor"] = kStateReady
           /\ UNCHANGED <<sensor_address_, dValues>>]_vars

C11_Witness ==
    /\ CycleDone /\ UnknownCommand(cycle.cmd) /\ cycle.cmd = <<"0", "X">>
    /\ ReplyTexts = << Rejection >>
    /\ dValues = Packed35 /\ state_["sensor"] = kStateReady

\* ---- C12
DataCommand(cmd) ==
    /\ ParseCommand(cmd).address = TheAddress
    /\ ParseCommand(cmd).primary = kDataRequest

\* The response line a data request for slot i is answered with.
SlotLine(i) == IF i < MEASUREMENT_STR_ARRAY_MAX_ELEMENT THEN dValues[i] ELSE <<>>

\* C12: a DataRequest for slot i addressed to the device is answered with one
\* reply, the address followed by response line i as it is at that moment when i
\* is in 0..9 and the bare address when it is not; the response lines are left as
\* they are and the device is Ready afterwards.
C12_DataRequest ==
    [][(LoopStep /\ cycle'.parsed /\ DataCommand(cycle'.cmd))
        => /\ trace' = << Ev("forceListen"),
                          Send(Reply(SlotLine(ParseCommand(cycle'.cmd).param1)), "final"),
                          Ev("forceListen") >>
           /\ pc' = "idle"
           /\ state_'["sensor"] = kStateReady
           /\ UNCHANGED <<sensor_address_, dValues>>]_vars

\* A request for slot 10 was answered with the bare address while the lines held
\* packed values.
C12_Witness ==
    /\ CycleDone /\ DataCommand(cycle.cmd) /\ ParseCommand(cycle.cmd).param1 = 10
    /\ dValues = Packed35 /\ dValues[9] = <<>> /\ dValues[1] # <<>>
    /\ ReplyTexts = << Notice >>

\* ---- C13
\* text is <body><3-character check code of body>\r\n
HasCrc(text) ==
    /\ Len(text) >= 6
    /\ SubSeq(text, Len(text) - 1, Len(text)) = CRLF
    /\ SubSeq(text, Len(text) - 4, Len(text) - 2) = CrcAscii(SubSeq(text, 1, Len(text) - 5))

\* The latest cycle handled a command for the device that requested a check code.
CrcCycle ==
    /\ CycleDone
    /\ ParseCommand(cycle.cmd).address = TheAddress
    /\ ParseCommand(cycle.cmd).crc

MeasurementStarted ==
    /\ cycle.parsed
    /\ ParseCommand(cycle.cmd).address = TheAddress
    /\ ParseCommand(cycle.cmd).primary = kMeasurement

Timing0000 == Reply(<<"0", "0", "0", "0">>)

\* C14: a Measurement command with param1 # 0 is answered with the address and
\* the timing token "0000" and with nothing else: no acquisition delay, no poll of
\* the source, no packing, no completion notice, and every response line is empty
\* afterwards; with param1 = 0 the first reply is the address and "0219".
C14_UnsupportedIndex ==
    MeasurementStarted =>
        IF ParseCommand(cycle.cmd).param1 # 0
        THEN /\ pc = "idle"
             /\ trace = << Ev("forceListen"), Send(Timing0000, "timing"), Ev("forceListen") >>
             /\ dValues = BlankLines
        ELSE /\ Len(Replies) >= 1
             /\ Replies[1] = Send(Timing0219, "timing")

C14_Witness ==
    /\ MeasurementStarted /\ cycle.cmd = <<"0", "M", "1">>
    /\ ReplyTexts = << Timing0000 >>
    /\ dValues = BlankLines /\ ~Happened("poll") /\ measurementValues = pollSensor

\* ---- C15
VerifyCommand(cmd) ==
    /\ ParseCommand(cmd).address = TheAddress
    /\ ParseCommand(cmd).primary = kVerification

ContinuousCommand(cmd) ==
    /\ ParseCommand(cmd).address = TheAddress
    /\ ParseCommand(cmd).primary = kContinuousMeasurement

\* The text before the line terminator, with the check code when asked for.
WithCrc(body, crc) == IF crc THEN body \o CrcAscii(body) ELSE body

\* The reply a Continuous command p is to get.
ContinuousText(p) ==
    WithCrc(IF p.param1 < MEASUREMENT_ARRAY_MAX_SIZE
            THEN <<p.address>> \o dtoa(pollSensor[p.param1 + 1], 6, SDI12_VALUE_STR_SIZE,
                                       FALSE, TRUE).str
            ELSE <<p.address>>,
            p.crc) \o CRLF

\* The events of a Continuous cycle for p.
ContinuousTrace(p) ==
    (IF p.param1 < MEASUREMENT_ARRAY_MAX_SIZE
     THEN << Ev("forceListen"), Ev("poll") >> ELSE << Ev("forceListen") >>)
    \o << Send(ContinuousText(p), "final"), Ev("forceListen") >>

\* C16: a Continuous command with param1 below the number of measurement values
\* polls the source once and is answered at once with a single reply, the address
\* followed by the encoding of the value at index param1 (and the check code if
\* requested); with param1 out of range the reply is the bare address and the
\* source is not polled; in both cases there is no acquisition delay and the
\* response lines are unchanged.
C16_ContinuousValue ==
    [][(LoopStep /\ cycle'.parsed /\ ContinuousCommand(cycle'.cmd))
        => /\ trace' = ContinuousTrace(ParseCommand(cycle'.cmd))
           /\ pc' = "idle"
           /\ dValues' = dValues]_vars

\* "0RC8!" was answered with the ninth value while the lines held packed values.
C16_Witness ==
    /\ CycleDone /\ cycle.cmd = <<"0", "R", "C", "8">> /\ TheAddress = "0"
    /\ Len(ReplyTexts) = 1
    /\ SubSeq(ReplyTexts[1], 1, 10) = <<"0", "-", "0", ".", "1", "1", "1", "1", "1", "1">>
    /\ Len(ReplyTexts[1]) = 15
    /\ dValues = Packed35

\* ---- C17
\* C17: a SetAddress call with a non-alphanumeric character returns false, leaves
\* the address of the device as it was and writes nothing to the EEPROM, whatever
\* the address and whether or not the object uses an EEPROM cell.
C17_RejectsNonAlnum ==
    [][(call'.made /\ ~isalnum(call'.address))
        => /\ ~call'.ret /\ ~call'.wrote
           /\ sensor_address_' = sensor_address_
           /\ EEPROM' = EEPROM]_vars

\* SetAddress('$') was refused by an object that mirrors its address '5' to cell 1.
C17_Witness ==
    /\ call.made /\ call.address = "$" /\ ~call.ret
    /\ eeprom_address_["sensor"] = 1
    /\ TheAddress = "5" /\ EEPROM[1] = "5"

\* ---- C18
\* Every ASCII reply of the cycle that ends in the next state starts with a.
StartWith(a) == \A i \in 1..Len(ReplyTexts') : Head(ReplyTexts'[i]) = a

\* How the call of loop() that parsed p answers, by the address the device has.
AnsweredByAddress(p) ==
    IF p.address = TheAddress
    THEN /\ Len(Replies') >= 1
         /\ StartWith(TheAddress')
         /\ (p.primary = kAddressChange /\ isalnum(p.param1))
               => TheAddress' = p.param1 /\ ReplyTexts' = << <<p.param1>> \o CRLF >>
    ELSE IF p.primary = kAddressQuery
    THEN ReplyTexts' = << <<TheAddress>> \o CRLF >> /\ TheAddress' = TheAddress
    ELSE Replies' = <<>> /\ TheAddress' = TheAddress

\* C18: the address changes only by a SetAddress call that succeeds, made by the
\* application or for an AddressChange command, and is then the character X of
\* the call; an AddressChange command is answered with X; and with whatever
\* address the device has, an address query is answered with that address, a
\* command addressed to it is answered, and a command addressed to any other
\* address (the previous one included) gets no reply.
C18_AddressChange ==
    /\ [][(LoopStep /\ cycle'.parsed) => AnsweredByAddress(ParseCommand(cycle'.cmd))]_vars
    /\ [][TheAddress' # TheAddress
            => call'.made /\ call'.ret /\ call'.address = TheAddress']_vars
    /\ []((call.made /\ call.ret) => TheAddress = call.address)

\* "5A0!" changed the address from '5' to '0' and was answered with "0".
C18_Witness ==
    /\ CycleDone /\ cycle.cmd = <<"5", "A", "0">>
    /\ call.made /\ call.ret /\ call.address = "0"
    /\ TheAddress = "0"
    /\ ReplyTexts = << <<"0">> \o CRLF >>

\* ---- C19
\* C19: the address of every device object is alphanumeric in every reachable
\* state: after either constructor with any address argument, slot argument and
\* EEPROM content, and after any SetAddress calls and AddressChange commands.
C19_AddressAlnum == \A d \in Sensors : isalnum(sensor_address_[d])

\* The object was constructed over a cell holding '$', so it took the default
\* address, and has since refused SetAddress('$').
C19_Witness ==
    /\ eeprom_address_["sensor"] = 0 /\ EEPROM[0] = "$"
    /\ TheAddress = DEFAULT_SENSOR_ADDR
    /\ call.made /\ call.address = "$" /\ ~call.ret

\* ---- C20
TheSlot == eeprom_address_["sensor"]

\* The EEPROM cell of the device holds its address.
Mirrored == TheSlot >= 0 /\ EEPROM[TheSlot] = TheAddress

\* C20: for a device that uses an EEPROM cell, the cell holds the address after
\* every SetAddress call that succeeded and keeps holding it from then on; for a
\* device that uses none, no step writes the EEPROM, no SetAddress call reports a
\* write, and GetAddressFromEEPROM gives the null character.
C20_MirroredToStorage ==
    /\ []((TheSlot >= 0 /\ call.made /\ call.ret) => call.wrote /\ Mirrored)
    /\ [][Mirrored => Mirrored']_vars
    /\ [][TheSlot < 0 => EEPROM' = EEPROM /\ ~call'.wrote]_vars
    /\ [](TheSlot < 0 => GetAddressFromEEPROM(EEPROM, TheSlot) = NUL)

\* The address '0' was written to cell 1, which can only hold it by a write.
C20_Witness ==
    /\ TheSlot = 1 /\ call.made /\ call.ret /\ call.wrote
    /\ TheAddress = "0" /\ EEPROM[1] = "0" /\ EEPROM[0] # "0"

\* C21: an object constructed with EEPROM use whose stored byte is not alphanumeric
\* has the constructor's address argument as its address, and the default "0" only
\* when that argument is not alphanumeric either.
StoredInvalid ==
    /\ fin.fn = "construct" /\ ~fin.default /\ fin.eeprom_address >= 0
    /\ ~isalnum(EEPROM[fin.eeprom_address])

C21_FallsBackToArgument ==
    (fout # NoArgs /\ StoredInvalid) =>
        TheAddress = (IF isalnum(fin.address) THEN fin.address ELSE DEFAULT_SENSOR_ADDR)

\* dtoa has run on the arguments in fin.
DtoaDone == fin.fn = "dtoa" /\ fout # NoArgs

\* C22: with fit_len > 0, the number dtoa writes has at most fit_len characters.
C22_WithinFitLen ==
    (DtoaDone /\ fin.fit_len > 0 /\ fout.str # NaNStr) => Len(fout.str) <= fin.fit_len

\* The scaled fraction of the value in fin at the precision asked for.
AskedPrec == ClampPrec(fin.prec)
AskedScale == ScaleFrac(fin.value.frac, AskedPrec)
\* dtoa ran on a number within thres_max, with no width to fit.
PlainNumber == DtoaDone /\ ~fin.value.nan /\ ~fin.value.big /\ fin.fit_len = 0

\* C23: a scaled remainder of exactly one half is rounded to the even digit: when
\* the last kept digit is even, the digits are written as they stand.
C23_HalfToEven ==
    (/\ PlainNumber
     /\ IsHalf(AskedScale.rem, AskedScale.den)
     /\ (IF AskedPrec > 0 THEN AskedScale.iff % 2 = 0 ELSE fin.value.whole % 2 = 0))
    => fout.str = dtoaWrite(fin.value, AskedPrec,
                            [iff |-> AskedScale.iff, whole |-> fin.value.whole],
                            fin.zero_trail, fin.pos_sign)

\* The number a text of digits denotes.
RECURSIVE DigitsValue(_)
DigitsValue(str) ==
    IF str = <<>> THEN 0
    ELSE 10 * DigitsValue(SubSeq(str, 1, Len(str) - 1)) + DigitValue(str[Len(str)])

\* The parts of a written number: the text without its sign, where its decimal
\* point stands (past the end if there is none), its integral part and its
\* fractional part in units of 10^-9.
Unsigned(str) == IF str # <<>> /\ str[1] \in {"+", "-"} THEN Tail(str) ELSE str
PointAt(str) ==
    IF \E i \in 1..Len(str) : str[i] = "."
    THEN CHOOSE i \in 1..Len(str) : str[i] = "."
    ELSE Len(str) + 1
TextWhole(str) == DigitsValue(SubSeq(Unsigned(str), 1, PointAt(Unsigned(str)) - 1))
TextFrac9(str) ==
    LET u == Unsigned(str)
        f == SubSeq(u, PointAt(u) + 1, Len(u))
    IN  DigitsValue(f) * Pow10(9 - Len(f))

\* |text - value| in units of 10^-9, for a text whose integral part is that of the
\* value or one more.
TextError ==
    LET e == (TextWhole(fout.str) - fin.value.whole) * Pow10(9)
             + TextFrac9(fout.str) - fin.value.frac * Pow10(9 - FracDigits)
    IN  IF e < 0 THEN -e ELSE e

\* C24: at a precision p in 0..9, with no width to fit, the number written is
\* within 10^-p / 2 of the value.
C24_HalfUnit ==
    (PlainNumber /\ fin.prec <= 9)
    => /\ TextWhole(fout.str) - fin.value.whole \in {0, 1}
       /\ (fout.str[1] = "-") = fin.value.neg
       /\ TextError <= Pow10(9)
       /\ 2 * TextError <= Pow10(9 - AskedPrec)

\* C25: for a NaN, dtoa writes "NaN" and returns 0, whatever the other arguments.
C25_NaNInput ==
    (DtoaDone /\ fin.value.nan) => (fout.str = NaNStr /\ fout.len = 0)

\* A NaN was converted with a width to fit, a precision and both options set.
C25_Witness ==
    /\ DtoaDone /\ fin.value.nan /\ fin.fit_len = 9 /\ fin.prec = 6
    /\ fin.zero_trail /\ fin.pos_sign /\ fout.str = NaNStr

\* The number of decimal digits of the integral part of the magnitude.
TrueDigits(value) == IF value.big THEN Len(BigDigits) ELSE IntLenLoop(value.whole, 0)

\* C26: with fit_len > 0, a number whose integral part has fit_len digits or more
\* gives "NaN" and 0, and one with fewer digits gives no "NaN".
C26_OverflowReported ==
    (DtoaDone /\ ~fin.value.nan /\ fin.fit_len > 0)
    => IF TrueDigits(fin.value) >= fin.fit_len
       THEN fout.str = NaNStr /\ fout.len = 0
       ELSE fout.str # NaNStr

\* formatOutputSDI has run with the line cap in fin.
FormatDone == fin.fn = "formatOutputSDI" /\ fout # NoArgs
LineSlots == 0..(MEASUREMENT_STR_ARRAY_MAX_ELEMENT - 1)

\* C27: no response line is longer than the line cap formatOutputSDI was given.
C27_LineCap ==
    FormatDone => \A i \in LineSlots : Len(dValues[i]) <= fin.maxChar

\* The text dtoa writes for measurement value i.
Field(i) == dtoa(measurementValues[i], 6, SDI12_VALUE_STR_SIZE, FALSE, TRUE).str

\* First-fit packing of the fields from i on into lines d, the current line being
\* j: a field starts a new line exactly when the current line with it would reach
\* the cap.
RECURSIVE GreedyFrom(_, _, _, _)
GreedyFrom(i, d, j, cap) ==
    IF i > MEASUREMENT_ARRAY_MAX_SIZE THEN d
    ELSE IF Len(d[j]) + Len(Field(i)) >= cap
    THEN GreedyFrom(i + 1, [d EXCEPT ![j + 1] = Field(i)], j + 1, cap)
    ELSE GreedyFrom(i + 1, [d EXCEPT ![j] = d[j] \o Field(i)], j, cap)

\* C28: the lines are the first-fit packing of the encoded fields in input order,
\* whole fields only, a new line starting exactly when the field would make the
\* current line reach the cap.
C28_FirstFit ==
    FormatDone => dValues = GreedyFrom(1, BlankLines, 0, fin.maxChar)

\* C29: after formatOutputSDI the lines are what they would be had every slot been
\* empty before: the used slots come first and every later slot is empty.
C29_AllSlotsRewritten ==
    FormatDone =>
        /\ dValues = formatOutputSDI(measurementValues, BlankLines, fin.maxChar)
        /\ \A i \in LineSlots \ {0} : dValues[i] # <<>> => dValues[i - 1] # <<>>
        /\ \A i \in LineSlots : dValues[i] # UsedLines[i]

\* Ten lines held text from an earlier call; the new values filled slots 0 and 1
\* only and slots 2 to 9 were emptied.
C29_Witness ==
    /\ FormatDone /\ fout.dValues = UsedLines
    /\ dValues[0] # <<>> /\ dValues[1] # <<>>
    /\ \A i \in LineSlots \ {0, 1} : dValues[i] = <<>>

\* A call of loop() that parsed a command for the device: one with its address as
\* it was before the call, or the address query.
ForDevice(cmd) ==
    \/ ParseCommand(cmd).address = TheAddress
    \/ ParseCommand(cmd).primary = kAddressQuery
CommandStep == LoopStep /\ cycle'.parsed /\ ForDevice(cycle'.cmd)

SingleReplyCommands ==
    {kAcknowledge, kAddressQuery, kIdentification, kAddressChange, kDataRequest,
     kContinuousMeasurement, kUnknown}

\* C30: a command for the device is never answered twice with the same reply:
\* Acknowledge, AddressQuery, Identification, AddressChange, DataRequest,
\* Continuous and Unknown get exactly one ASCII reply from parseSdi12Cmd and the
\* state dispatch together, every command has one reply at most when loop()
\* returns or enters the acquisition delay, and after the delay there are two
\* replies only for a Measurement that no line break interrupted.
C30_NoReplyTwice ==
    /\ [][CommandStep =>
            /\ Len(AsciiReplies') <= 1
            /\ (ParseCommand(cycle'.cmd).primary \in SingleReplyCommands
                    => Len(AsciiReplies') = 1 /\ pc' = "idle")
            /\ (pc' = "delay" => Len(AsciiReplies') = 1)]_vars
    /\ [][(pc = "delay" /\ pc' = "idle") =>
            /\ Len(AsciiReplies') <= 2
            /\ (Len(AsciiReplies') = 2 =>
                    /\ ParseCommand(cycle'.cmd).primary = kMeasurement
                    /\ ~cycle'.brk
                    /\ ReplyTexts' = << Timing0219, Notice >>)]_vars

\* An acknowledge "0!" was answered with the one reply "0\r\n", sent by
\* parseSdi12Cmd, and the state switch of loop() added none.
C30_Witness ==
    /\ CycleDone /\ TheAddress = "0" /\ cycle.cmd = <<"0">>
    /\ Len(AsciiReplies) = 1 /\ AsciiReplies[1] = Send(Notice, "parse")

\* C31: when a response cycle is over, commandReceived is empty, so the next
\* command handed to parseSdi12Cmd is made of its own bytes only.
C31_BufferEmpty ==
    CycleDone => commandReceived = <<>>

\* C32: the line-break marking is clear once a command was parsed, before the
\* switch on the state runs, and clear again when a Measurement cycle ends; a
\* Measurement is cancelled exactly when a break was marked during its
\* acquisition window, so a break marked before the command does not cancel it.
C32_BreakBeforeCommand ==
    /\ [][(LoopStep /\ cycle'.parsed) => ~lineBreak']_vars
    /\ [][(pc = "delay" /\ pc' = "idle" /\ state_["sensor"] = kStateMeasurement)
            => /\ ~lineBreak'
               /\ (dValues' = BlankLines) = lineBreak]_vars
    /\ [](MeasurementCycle /\ cycle.waited /\ cycle.pre /\ ~cycle.brk
            => dValues = Packed35 /\ ReplyTexts = << Timing0219, Notice >>)

\* "0M!" arrived with a break marked before it, no break followed the timing
\* reply, and the cycle ended with the values packed and the notice sent.
C32_Witness ==
    /\ MeasurementCycle /\ cycle.cmd = <<"0", "M">> /\ cycle.waited
    /\ cycle.pre /\ ~cycle.brk /\ ~lineBreak
    /\ dValues = Packed35 /\ ReplyTexts = << Timing0219, Notice >>

\* The latest cycle is over and was a Measurement, Concurrent, high-volume ASCII
\* or Verify command for the device.
PackingCommands == {kMeasurement, kConcurrentMeasurement, kHighVolumeASCII, kVerification}
PackingCycle ==
    /\ CycleDone
    /\ ParseCommand(cycle.cmd).address = TheAddress
    /\ ParseCommand(cycle.cmd).primary \in PackingCommands

\* C33: a Measurement, Concurrent, high-volume ASCII or Verify cycle that ends
\* without packing leaves every response line empty; empty lines stay empty until
\* a call of loop() packs; and while they are empty a DataRequest for the device
\* is answered with the bare address.
C33_NoStaleData ==
    /\ []((PackingCycle /\ ~Happened("pack")) => dValues = BlankLines)
    /\ [][(dValues = BlankLines /\ dValues' # BlankLines)
            => Happened("pack")']_vars
    /\ [][(LoopStep /\ cycle'.parsed /\ DataCommand(cycle'.cmd) /\ dValues = BlankLines)
            => ReplyTexts' = << Notice >>]_vars

\* After a poll of the source whose values were not kept, "0D0!" was answered with
\* the bare address.
C33_Witness ==
    /\ CycleDone /\ TheAddress = "0" /\ cycle.cmd = <<"0", "D", "0">>
    /\ measurementValues = pollSensor /\ dValues = BlankLines
    /\ ReplyTexts = << Notice >>

KeepingCommands ==
    {kAddressQuery, kAcknowledge, kIdentification, kAddressChange, kDataRequest,
     kByteDataRequest, kContinuousMeasurement, kUnknown}

\* C34: a call of loop() that handles an AddressQuery, Acknowledge, Identification,
\* AddressChange, DataRequest, ByteDataRequest, Continuous or Unknown command for
\* the device leaves every response line as it was.
C34_LinesKept ==
    [][(CommandStep /\ ParseCommand(cycle'.cmd).primary \in KeepingCommands)
        => /\ dValues' = dValues
           /\ pc' = "idle"]_vars

\* The lines packed by a measurement were still there after a continuous
\* measurement "0R0!" was answered with a fresh value.
C34_Witness ==
    /\ CycleDone /\ TheAddress = "0" /\ cycle.cmd = <<"0", "R", "0">>
    /\ dValues = Packed35 /\ Len(ReplyTexts) = 1 /\ Len(ReplyTexts[1]) > 3

\* A call of loop() that parsed a command whose address is the wildcard '?'.
WildcardStep == LoopStep /\ cycle'.parsed /\ ParseCommand(cycle'.cmd).address = "?"

\* C35: a command with the address '?' is answered only when it is the address
\* query, and then with the bare address; whatever verb follows the '?', the
\* device address and the response lines stay as they are and no measurement is
\* started (no timing reply, no acquisition delay, no poll of the source).
C35_WildcardOnlyQuery ==
    [][WildcardStep =>
        /\ UNCHANGED <<sensor_address_, dValues, measurementValues, EEPROM>>
        /\ pc' = "idle"
        /\ IF ParseCommand(cycle'.cmd).primary = kAddressQuery
           THEN trace' = << Ev("forceListen"), Send(Reply(<<>>), "final"),
                            Ev("forceListen") >>
           ELSE trace' = << Ev("forceListen") >>]_vars

\* "?A5!" reached the device with address '0' while its lines held the values of
\* a measurement: no reply, the address and the lines as before.
C35_Witness ==
    /\ CycleDone /\ cycle.cmd = <<"?", "A", "5">>
    /\ TheAddress = "0" /\ dValues = Packed35 /\ Replies = <<>>

\* The lines and the line index as the packing loop of the call leaves them.
AfterPacking ==
    PackFrom(measurementValues, 1, [d |-> SetLine(fout.dValues, 0, <<>>), j |-> 0],
             fin.maxChar)

\* C36: formatOutputSDI writes no slot outside the array of ten: the line index is
\* within 0..9 when the packing loop ends, and after the blank filling the array
\* still has exactly the slots 0..9.
C36_IndexInArray ==
    FormatDone =>
        /\ AfterPacking.j \in LineSlots
        /\ DOMAIN AfterPacking.d = LineSlots
        /\ DOMAIN dValues = LineSlots

\* Nine values packed with the cap of 35 over lines that were all in use: the
\* packing went on to a later line, and the blank filling emptied the last slot.
C36_Witness ==
    /\ FormatDone /\ fin.maxChar = SDI12_VALUES_STR_SIZE_35 /\ fout.dValues = UsedLines
    /\ AfterPacking.j > 0 /\ AfterPacking.j < 9
    /\ dValues[AfterPacking.j] # <<>> /\ dValues[9] = <<>>

\* dtoa wrote a number on its own path: the value is a number within thres_max that
\* passed the width test.
CustomPath == DtoaDone /\ ~fin.value.nan /\ ~fin.value.big /\ fout.str # NaNStr

\* The precision in effect: the argument clamped to [0, 9] and resized to the width.
InEffectPrec == FitPrec(fin.value, fin.prec, fin.fit_len, fin.pos_sign)

\* The number of characters after the decimal point of a text (0 without a point).
FracCount(str) == IF PointAt(str) > Len(str) THEN 0 ELSE Len(str) - PointAt(str)

\* C37: on dtoa's own path, without zero_trail the text ends neither with a decimal
\* point nor, when it has a decimal point, with the digit 0; with zero_trail and a
\* precision in effect of p > 0 the text has a decimal point followed by exactly p
\* digits.
C37_TrailingZeros ==
    CustomPath =>
        IF fin.zero_trail
        THEN InEffectPrec > 0 =>
                 /\ PointAt(fout.str) <= Len(fout.str)
                 /\ FracCount(fout.str) = InEffectPrec
        ELSE /\ fout.str[Len(fout.str)] # "."
             /\ PointAt(fout.str) <= Len(fout.str) => fout.str[Len(fout.str)] # "0"

\* 1.25 at precision 6 without zero_trail and without a sign is "1.25".
C37_Witness ==
    /\ CustomPath /\ ~fin.zero_trail /\ fin.prec = 6 /\ fin.fit_len = 0
    /\ fin.value = Val(FALSE, 1, 25000000) /\ ~fin.pos_sign
    /\ fout.str = <<"1", ".", "2", "5">>

\* C38: a text of dtoa other than "NaN" starts with '-' when the value is negative,
\* also when its magnitude rounds to zero; with '+' when the value is not negative
\* and pos_sign is set; and with a digit otherwise.
C38_SignCharacter ==
    (DtoaDone /\ fout.str # NaNStr) =>
        IF fin.value.neg THEN fout.str[1] = "-"
        ELSE IF fin.pos_sign THEN fout.str[1] = "+"
        ELSE fout.str[1] \in Digits

\* -0.0499 at precision 1 is written "-0".
C38_Witness ==
    /\ DtoaDone /\ fin.value = Val(TRUE, 0, 4990000) /\ fin.prec = 1
    /\ fin.fit_len = 0 /\ ~fin.zero_trail /\ fout.str = <<"-", "0">>

\* The length dtoa returns for measurement value i, which formatOutputSDI adds to
\* the length of the current line.
FieldLen(i) == dtoa(measurementValues[i], 6, SDI12_VALUE_STR_SIZE, FALSE, TRUE).len

\* The lengths returned for the values i..9, and the characters on the lines j..9.
RECURSIVE CountedFrom(_)
CountedFrom(i) ==
    IF i > MEASUREMENT_ARRAY_MAX_SIZE THEN 0 ELSE FieldLen(i) + CountedFrom(i + 1)

RECURSIVE WrittenFrom(_)
WrittenFrom(j) ==
    IF j >= MEASUREMENT_STR_ARRAY_MAX_ELEMENT THEN 0
    ELSE Len(dValues[j]) + WrittenFrom(j + 1)

\* C39: the length dtoa returns is the number of characters it wrote unless the
\* text is "NaN", and it is 0 exactly for "NaN"; and formatOutputSDI, which adds
\* the returned lengths, counts every field it puts on a line at its true length:
\* the characters on the lines are as many as the lengths returned.
C39_TrueLength ==
    FormatDone =>
        /\ \A i \in 1..MEASUREMENT_ARRAY_MAX_SIZE :
              /\ Field(i) # NaNStr => FieldLen(i) = Len(Field(i))
              /\ FieldLen(i) = 0 <=> Field(i) = NaNStr
        /\ WrittenFrom(0) = CountedFrom(1)

====
